---- MODULE Spec2Model ----
(***************************************************************************)
(* Verification model of the pimu orientation library.                     *)
(*                                                                         *)
(*   - pimu/geometry.py: build_rotation_matrix and                         *)
(*     tait_bryan_angles_from_rotation_matrix                              *)
(*   - pimu/mpu6050/interface.py and pimu/sensorboard.py: the coordinate   *)
(*     adapters                                                            *)
(*   - pimu/imu.py, pimu/mpu6050/mpu6050.py, pimu/calibration.py: the bias *)
(*     calibration                                                         *)
(*                                                                         *)
(* Real numbers are exact.  The rotation mathematics works in the field    *)
(* Q(sqrt 2): a number is a record [a, b, d] standing for                  *)
(* (a + b*sqrt(2)) / d, kept in lowest terms with d > 0, so two numbers    *)
(* are equal exactly when their records are.  Angles are integers counting *)
(* eighths of a turn (pi/4), the angles whose sine and cosine lie in       *)
(* Q(sqrt 2).                                                              *)
(***************************************************************************)
EXTENDS Integers, Sequences, FiniteSets, TLC

\* ------------------------------------------------------------------------
\* Exact arithmetic in Q(sqrt 2)
\* ------------------------------------------------------------------------

AbsInt(n) == IF n < 0 THEN -n ELSE n

SgnInt(n) == IF n < 0 THEN -1 ELSE IF n > 0 THEN 1 ELSE 0

\* Euclid's algorithm on a pair of naturals.
GCDOf[p \in Nat \X Nat] ==
    IF p[2] = 0 THEN p[1] ELSE GCDOf[<<p[2], p[1] % p[2]>>]

GCD(m, n) == GCDOf[<<m, n>>]

\* (a + b*sqrt 2) / d in lowest terms with a positive denominator.
Norm(a, b, d) ==
    LET g == GCD(GCD(AbsInt(a), AbsInt(b)), AbsInt(d))
        s == IF d < 0 THEN -1 ELSE 1
    IN  [a |-> s * (a \div g), b |-> s * (b \div g), d |-> s * (d \div g)]

Rat(n, d) == Norm(n, 0, d)

Num(n) == [a |-> n, b |-> 0, d |-> 1]

Zero == Num(0)

One == Num(1)

Neg(x) == [a |-> -x.a, b |-> -x.b, d |-> x.d]

Add(x, y) ==
    LET g == GCD(x.d, y.d)
        fx == y.d \div g
        fy == x.d \div g
    IN  Norm(x.a * fx + y.a * fy, x.b * fx + y.b * fy, x.d * fx)

Sub(x, y) == Add(x, Neg(y))

Mul(x, y) ==
    Norm(x.a * y.a + 2 * x.b * y.b, x.a * y.b + x.b * y.a, x.d * y.d)

\* 1 / y, through the conjugate: 1/(a + b r) = (a - b r) / (a^2 - 2 b^2).
Inv(y) == Norm(y.a * y.d, -(y.b * y.d), y.a * y.a - 2 * y.b * y.b)

Div(x, y) == Mul(x, Inv(y))

\* m > n*sqrt 2 for naturals m, n with n > 0, without squaring: for
\* n < m < 2n and r = m - n, m > n*sqrt 2 exactly when n - r < r*sqrt 2.
RECURSIVE ExceedsSqrt2(_, _)
ExceedsSqrt2(m, n) ==
    IF m >= 2 * n THEN TRUE
    ELSE IF m <= n THEN FALSE
    ELSE ~ExceedsSqrt2(2 * n - m, m - n)

\* The sign of a + b*sqrt 2 (d is positive).
Sign(x) ==
    IF x.b = 0 THEN SgnInt(x.a)
    ELSE IF x.a = 0 THEN SgnInt(x.b)
    ELSE IF SgnInt(x.a) = SgnInt(x.b) THEN SgnInt(x.a)
    ELSE IF ExceedsSqrt2(AbsInt(x.a), AbsInt(x.b)) THEN SgnInt(x.a)
    ELSE SgnInt(x.b)

\* The largest integer k in lo..hi with k <= x, for lo <= x.
RECURSIVE FloorIn(_, _, _)
FloorIn(x, lo, hi) ==
    IF lo = hi THEN lo
    ELSE LET mid == (lo + hi + 1) \div 2
         IN  IF Sign(Sub(x, Num(mid))) >= 0 THEN FloorIn(x, mid, hi)
             ELSE FloorIn(x, lo, mid - 1)

\* The integer part of x >= 0.
Floor(x) == FloorIn(x, 0, (AbsInt(x.a) + 2 * AbsInt(x.b)) \div x.d + 1)

\* x < y for positive x and y, by their continued fractions: the integer
\* parts decide, and when they agree the reciprocals of the fractional parts
\* do, in the opposite order.  No common denominator is formed, so a
\* tolerance such as 1e-6 compares with any number of the model without
\* leaving the range of the integers.
RECURSIVE LessPositive(_, _)
LessPositive(x, y) ==
    IF x = y THEN FALSE
    ELSE LET fx == Floor(x)
             fy == Floor(y)
             rx == Sub(x, Num(fx))
             ry == Sub(y, Num(fy))
         IN  IF fx # fy THEN fx < fy
             ELSE IF rx = Zero THEN TRUE
             ELSE IF ry = Zero THEN FALSE
             ELSE LessPositive(Inv(ry), Inv(rx))

Less(x, y) ==
    IF Sign(x) # Sign(y) THEN Sign(x) < Sign(y)
    ELSE IF Sign(x) = 0 THEN FALSE
    ELSE IF Sign(x) > 0 THEN LessPositive(x, y)
    ELSE LessPositive(Neg(y), Neg(x))

Abs(x) == IF Sign(x) < 0 THEN Neg(x) ELSE x

\* The largest k in lo..hi with k*k <= n, for lo*lo <= n.
RECURSIVE ISqrtIn(_, _, _)
ISqrtIn(n, lo, hi) ==
    IF lo = hi THEN lo
    ELSE LET mid == (lo + hi + 1) \div 2
         IN  IF mid * mid <= n THEN ISqrtIn(n, mid, hi)
             ELSE ISqrtIn(n, lo, mid - 1)

\* The integer part of the square root of the natural number n.
ISqrt(n) == ISqrtIn(n, 0, IF n < 46340 THEN n ELSE 46340)

\* m/n for a positive rational a/d that is the square of m/n, else 0.
RationalRoot(a, d) ==
    IF ISqrt(a) * ISqrt(a) = a /\ ISqrt(d) * ISqrt(d) = d
    THEN Rat(ISqrt(a), ISqrt(d))
    ELSE Zero

\* np.sqrt of a rational x >= 0 whose root lies in Q(sqrt 2): the root is
\* m/n or (m/n)*sqrt 2.
Sqrt(x) ==
    LET half == Rat(x.a, 2 * x.d)
        plain == RationalRoot(x.a, x.d)
        timesSqrt2 == Mul(RationalRoot(half.a, half.d),
                          [a |-> 0, b |-> 1, d |-> 1])
    IN  CHOOSE r \in {plain, timesSqrt2} : x.b = 0 /\ Mul(r, r) = x

\* ------------------------------------------------------------------------
\* Trigonometry on the pi/4 grid
\* ------------------------------------------------------------------------

\* np.pi, in units of pi/4.
_PI == 4

\* sqrt(2)/2
HalfSqrt2 == [a |-> 0, b |-> 1, d |-> 2]

\* np.sin of the angle k*pi/4.
Sin(k) ==
    LET m == k % 8
    IN  CASE m = 0 -> Zero
          [] m = 1 -> HalfSqrt2
          [] m = 2 -> One
          [] m = 3 -> HalfSqrt2
          [] m = 4 -> Zero
          [] m = 5 -> Neg(HalfSqrt2)
          [] m = 6 -> Neg(One)
          [] m = 7 -> Neg(HalfSqrt2)

\* np.cos of the angle k*pi/4.
Cos(k) == Sin(k + 2)

\* np.arcsin: the angle in [-pi/2, pi/2] whose sine is v.
Arcsin(v) == CHOOSE k \in -2..2 : Sin(k) = v

\* np.arctan2(y, x): the angle in (-pi, pi] of the point (x, y);
\* arctan2(0, 0) is 0.
Arctan2(y, x) ==
    IF y = Zero /\ x = Zero THEN 0
    ELSE CHOOSE k \in -3..4 :
            /\ Sub(Mul(y, Cos(k)), Mul(x, Sin(k))) = Zero
            /\ Sign(Add(Mul(y, Sin(k)), Mul(x, Cos(k)))) > 0

\* ------------------------------------------------------------------------
\* numpy arrays: a shape and the nested rows
\* ------------------------------------------------------------------------

Array2(rows) == [shape |-> <<Len(rows), Len(rows[1])>>, data |-> rows]

Array1(elems) == [shape |-> <<Len(elems)>>, data |-> elems]

\* rotation_matrix[i, j], zero-based as in the source.
At(m, i, j) == m.data[i + 1][j + 1]

\* The matrix product "@" of two 3x3 arrays.
MatMul(p, q) ==
    Array2([i \in 1..3 |-> [j \in 1..3 |->
        Add(Add(Mul(p.data[i][1], q.data[1][j]),
                Mul(p.data[i][2], q.data[2][j])),
            Mul(p.data[i][3], q.data[3][j]))]])

\* ------------------------------------------------------------------------
\* pimu/geometry.py
\* ------------------------------------------------------------------------

\* _EPS = 1e-6
_EPS == Rat(1, 1000000)

\* _almost_equal(v1, v2) with the default tolerance.
_almost_equal(v1, v2) == Less(Abs(Sub(v1, v2)), Abs(_EPS))

yaw_matrix_sin_cos_swapped(yaw_rad) ==
    Array2(<< <<One, Zero, Zero>>,
              <<Zero, Sin(yaw_rad), Neg(Cos(yaw_rad))>>,
              <<Zero, Cos(yaw_rad), Sin(yaw_rad)>> >>)

yaw_matrix(yaw_rad) ==
    Array2(<< <<One, Zero, Zero>>,
              <<Zero, Cos(yaw_rad), Neg(Sin(yaw_rad))>>,
              <<Zero, Sin(yaw_rad), Cos(yaw_rad)>> >>)

\* pitch_matrix with the same sign on both sines.
pitch_matrix_sines_alike(pitch_rad) ==
    Array2(<< <<Cos(pitch_rad), Zero, Sin(pitch_rad)>>,
              <<Zero, One, Zero>>,
              <<Sin(pitch_rad), Zero, Cos(pitch_rad)>> >>)

pitch_matrix(pitch_rad) ==
    Array2(<< <<Cos(pitch_rad), Zero, Sin(pitch_rad)>>,
              <<Zero, One, Zero>>,
              <<Neg(Sin(pitch_rad)), Zero, Cos(pitch_rad)>> >>)

roll_matrix(roll_rad) ==
    Array2(<< <<Cos(roll_rad), Neg(Sin(roll_rad)), Zero>>,
              <<Sin(roll_rad), Cos(roll_rad), Zero>>,
              <<Zero, Zero, One>> >>)

build_rotation_matrix_reversed(yaw_rad, pitch_rad, roll_rad) ==
    MatMul(MatMul(roll_matrix(roll_rad), pitch_matrix(pitch_rad)),
           yaw_matrix(yaw_rad))

build_rotation_matrix(yaw_rad, pitch_rad, roll_rad) ==
    MatMul(MatMul(yaw_matrix(yaw_rad), pitch_matrix(pitch_rad)),
           roll_matrix(roll_rad))

\* What a call returns: the tuple, or the exception it raised.
Returned(value) == [raised |-> "none", value |-> value]

Raised(exception) == [raised |-> exception, value |-> <<>>]

\* ValueError('Expected shape of the rotation matrix is (3, 3), but provided
\* has shape ...')
InvalidShape == "ValueError: Expected shape of the rotation matrix"

\* The three return statements return (yaw, roll, pitch) in the source's own
\* variable names: the second component is the one fixed at +-pi/2 at lock
\* and taken from arcsin otherwise.

lock_plus_angles_swapped(rotation_matrix) ==
    LET roll == _PI \div 2
        yaw == 0
        R12 == At(rotation_matrix, 0, 1)
        R13 == At(rotation_matrix, 0, 2)
        pitch == Arctan2(R13, R12)
    IN  Returned(<<yaw, roll, pitch>>)

\* The branch taken when R31 is almost -1.
lock_plus_angles(rotation_matrix) ==
    LET roll == _PI \div 2
        yaw == 0
        R12 == At(rotation_matrix, 0, 1)
        R13 == At(rotation_matrix, 0, 2)
        pitch == Arctan2(R12, R13)
    IN  Returned(<<yaw, roll, pitch>>)

\* The branch taken when R31 is almost +1.
lock_minus_angles(rotation_matrix) ==
    LET roll == -(_PI \div 2)
        yaw == 0
        R12 == At(rotation_matrix, 0, 1)
        R13 == At(rotation_matrix, 0, 2)
        pitch == Arctan2(Neg(R12), Neg(R13))
    IN  Returned(<<yaw, roll, pitch>>)

general_angles_by_name(rotation_matrix) ==
    LET R11 == At(rotation_matrix, 0, 0)
        R21 == At(rotation_matrix, 1, 0)
        R31 == At(rotation_matrix, 2, 0)
        R32 == At(rotation_matrix, 2, 1)
        R33 == At(rotation_matrix, 2, 2)
        roll == Arcsin(Neg(R31))
        pitch == Arctan2(Div(R32, Cos(roll)), Div(R33, Cos(roll)))
        yaw == Arctan2(Div(R21, Cos(roll)), Div(R11, Cos(roll)))
    IN  Returned(<<yaw, pitch, roll>>)

\* The general branch.
general_angles(rotation_matrix) ==
    LET R11 == At(rotation_matrix, 0, 0)
        R21 == At(rotation_matrix, 1, 0)
        R31 == At(rotation_matrix, 2, 0)
        R32 == At(rotation_matrix, 2, 1)
        R33 == At(rotation_matrix, 2, 2)
        roll == Arcsin(Neg(R31))
        pitch == Arctan2(Div(R32, Cos(roll)), Div(R33, Cos(roll)))
        yaw == Arctan2(Div(R21, Cos(roll)), Div(R11, Cos(roll)))
    IN  Returned(<<yaw, roll, pitch>>)

\* The body after the shape check.
angles_of_3x3(rotation_matrix) ==
    LET R31 == At(rotation_matrix, 2, 0)
    IN  IF _almost_equal(R31, Neg(One)) THEN lock_plus_angles(rotation_matrix)
        ELSE IF _almost_equal(R31, One) THEN lock_minus_angles(rotation_matrix)
        ELSE general_angles(rotation_matrix)

tait_bryan_angles_at_least_3x3(rotation_matrix) ==
    IF \/ Len(rotation_matrix.shape) # 2
       \/ rotation_matrix.shape[1] < 3
       \/ rotation_matrix.shape[2] < 3
    THEN Raised(InvalidShape)
    ELSE angles_of_3x3(rotation_matrix)

tait_bryan_angles_from_rotation_matrix(rotation_matrix) ==
    IF rotation_matrix.shape # <<3, 3>> THEN Raised(InvalidShape)
    ELSE angles_of_3x3(rotation_matrix)

\* The entries of rotation_matrix a call reads, as zero-based index pairs.
EntriesRead(rotation_matrix) ==
    IF rotation_matrix.shape # <<3, 3>> THEN {}
    ELSE LET R31 == At(rotation_matrix, 2, 0)
         IN  IF _almost_equal(R31, Neg(One)) \/ _almost_equal(R31, One)
             THEN {<<2, 0>>, <<0, 1>>, <<0, 2>>}
             ELSE {<<2, 0>>, <<0, 0>>, <<1, 0>>, <<2, 1>>, <<2, 2>>}

\* ------------------------------------------------------------------------
\* Elementary rotations and the inputs of the geometry calls
\* ------------------------------------------------------------------------

\* The elementary rotation by t about the X axis.
RotX(t) ==
    Array2(<< <<One, Zero, Zero>>,
              <<Zero, Cos(t), Neg(Sin(t))>>,
              <<Zero, Sin(t), Cos(t)>> >>)

\* The elementary rotation by t about the Y axis.
RotY(t) ==
    Array2(<< <<Cos(t), Zero, Sin(t)>>,
              <<Zero, One, Zero>>,
              <<Neg(Sin(t)), Zero, Cos(t)>> >>)

\* The elementary rotation by t about the Z axis.
RotZ(t) ==
    Array2(<< <<Cos(t), Neg(Sin(t)), Zero>>,
              <<Sin(t), Cos(t), Zero>>,
              <<Zero, Zero, One>> >>)

\* The matrix the unit tests of geometry.py expect for (yaw, pitch, roll):
\* test_only_yaw expects RotZ, test_only_pitch RotY, test_only_roll RotX.
ExpectedRotationMatrix(yaw, pitch, roll) ==
    MatMul(MatMul(RotZ(yaw), RotY(pitch)), RotX(roll))

\* Every angle of the grid in (-pi, pi].
Angles == -3..4

\* The multiples of pi/2 in (-pi, pi].
RightAngles == {-2, 0, 2, 4}

\* np.eye(n)
Eye(n) == Array2([i \in 1..n |-> [j \in 1..n |-> IF i = j THEN One ELSE Zero]])

\* np.zeros((r, c))
Zeros2(r, c) == Array2([i \in 1..r |-> [j \in 1..c |-> Zero]])

\* np.zeros(n)
Zeros1(n) == Array1([i \in 1..n |-> Zero])

\* A 3x3 array whose R31 is r31 and whose first row is (0, sin k, cos k).
LockShaped(r31, k) ==
    Array2(<< <<Zero, Sin(k), Cos(k)>>,
              <<Zero, Cos(k), Neg(Sin(k))>>,
              <<r31, Zero, Zero>> >>)

\* Values within the tolerance of -1 and of +1 that are not -1 or +1.
NearMinusOne == {Rat(-1999999, 2000000), Rat(-2000001, 2000000)}

NearPlusOne == {Rat(1999999, 2000000), Rat(2000001, 2000000)}

\* The pitch angles of [-pi/2, pi/2].
PitchAngles == -2..2

\* Arrays handed to tait_bryan_angles_from_rotation_matrix that are not
\* rotation matrices of the grid.
NearLockInputs ==
    {LockShaped(v, k) : v \in NearMinusOne \cup NearPlusOne, k \in Angles}

OtherShapedInputs ==
    {Eye(4), Zeros2(2, 3), Zeros2(3, 2), Zeros1(3), Zeros1(9)}

ArrayInputs == NearLockInputs \cup {Zeros2(3, 3)} \cup OtherShapedInputs

\* An array variable that holds nothing yet.
NoArray == Array1(<< >>)

\* A result variable that holds nothing yet.
NoResult == [raised |-> "pending", value |-> << >>]

\* ------------------------------------------------------------------------
\* Sensor readings
\* ------------------------------------------------------------------------

\* Imu.NUMBER_OF_CALIBRATION_SAMPLES (1000 in the source, bounded here).
NUMBER_OF_CALIBRATION_SAMPLES == 3

\* How many times Imu.calibrate is called on one engine.
MaxCalibrations == 2

RECURSIVE Pow(_, _)
Pow(base, e) == IF e = 0 THEN 1 ELSE base * Pow(base, e - 1)

\* A sensor reading is the exact real number (n + pi180 * pi/180) / Unit,
\* kept as the record [n, pi180]: the first part is a plain number (g,
\* deg/s, degrees Celsius), the second a multiple of pi/180, which is what
\* np.deg2rad produces.  With Unit a power of the sample count the means of
\* MaxCalibrations successive calibrations are exact.
Unit == Pow(NUMBER_OF_CALIBRATION_SAMPLES, MaxCalibrations)

\* The reading k.
Fix(k) == [n |-> k * Unit, pi180 |-> 0]

SNeg(x) == [n |-> -x.n, pi180 |-> -x.pi180]

SAdd(x, y) == [n |-> x.n + y.n, pi180 |-> x.pi180 + y.pi180]

SSub(x, y) == SAdd(x, SNeg(y))

\* x / k for a positive integer k.
SDivInt(x, k) == [n |-> x.n \div k, pi180 |-> x.pi180 \div k]

\* x * k for an integer k.
SMulInt(x, k) == [n |-> x.n * k, pi180 |-> x.pi180 * k]

\* np.deg2rad(x) = x * pi / 180, for a plain number x.
deg2rad(x) == [n |-> 0, pi180 |-> x.n]

\* ------------------------------------------------------------------------
\* pimu/mpu6050/interface.py and pimu/sensorboard.py: coordinate adapters
\* ------------------------------------------------------------------------

accelerometer_data_to_board_system(acc_x, acc_y, acc_z) ==
    <<acc_y, acc_x, SNeg(acc_z)>>

gyroscope_data_to_board_system(gyro_x, gyro_y, gyro_z) ==
    <<gyro_y, gyro_x, SNeg(gyro_z)>>

accelerometer_data_to_conventional_system(acc_x, acc_y, acc_z) ==
    <<acc_y, acc_x, SNeg(acc_z)>>

gyroscope_data_to_conventional_system(gyro_x, gyro_y, gyro_z) ==
    <<deg2rad(gyro_y), deg2rad(gyro_x), SNeg(deg2rad(gyro_z))>>

\* The triples handed to the adapters.
AdapterValues == {Fix(k) : k \in -1..2}

AdapterInputs == AdapterValues \X AdapterValues \X AdapterValues

\* ------------------------------------------------------------------------
\* pimu/mpu6050/mpu6050.py, pimu/imu.py, pimu/calibration.py: calibration
\* ------------------------------------------------------------------------

\* What one read of the sensor delivers: sensor.read_accelerometer_data,
\* sensor.read_temperature_data and sensor.read_gyroscope_data (for
\* calibration.py: pimu.read_accelerometer_data and
\* pimu.read_gyroscope_data).
Reading(ax, ay, az, t, gx, gy, gz) ==
    [accelerometer_data |-> <<Fix(ax), Fix(ay), Fix(az)>>,
     temperature_deg |-> Fix(t),
     gyroscope_data |-> <<Fix(gx), Fix(gy), Fix(gz)>>]

Source ==
    {Reading(1, 2, 3, 20, 4, 5, 6),
     Reading(0, 0, -1, 21, 0, 0, 0),
     Reading(-2, 1, 0, 22, 1, -3, 2)}

\* The six bias attributes Imu.__init__ sets to 0.
ZeroBias ==
    [acc_x |-> Fix(0), acc_y |-> Fix(0), acc_z |-> Fix(0),
     gyro_x |-> Fix(0), gyro_y |-> Fix(0), gyro_z |-> Fix(0)]

\* MPU6050.read_next for the sensor output raw and the stored bias.
read_next(raw, b) ==
    LET acc == accelerometer_data_to_board_system(raw.accelerometer_data[1],
                                                  raw.accelerometer_data[2],
                                                  raw.accelerometer_data[3])
        acc_x == SSub(acc[1], b.acc_x)
        acc_y == SSub(acc[2], b.acc_y)
        acc_z == SSub(acc[3], SAdd(b.acc_z, Fix(1)))
        gyro == gyroscope_data_to_board_system(raw.gyroscope_data[1],
                                               raw.gyroscope_data[2],
                                               raw.gyroscope_data[3])
        gyro_x == SSub(gyro[1], b.gyro_x)
        gyro_y == SSub(gyro[2], b.gyro_y)
        gyro_z == SSub(gyro[3], b.gyro_z)
    IN  <<acc_x, acc_y, acc_z, gyro_x, gyro_y, gyro_z, raw.temperature_deg>>

\* The first six components of a sample: np.array([acc_x, ..., gyro_z]).
SixOf(sample) == [i \in 1..6 |-> sample[i]]

\* np.zeros((n, 6))
ZeroSamples(n) == [i \in 1..n |-> [j \in 1..6 |-> Fix(0)]]

RECURSIVE ColumnSum(_, _, _)
ColumnSum(samples, axis, upto) ==
    IF upto = 0 THEN Fix(0)
    ELSE SAdd(ColumnSum(samples, axis, upto - 1), samples[upto][axis])

MeanOffByOne(samples) ==
    [axis \in 1..6 |->
        SDivInt(ColumnSum(samples, axis, Len(samples)), Len(samples) + 1)]

\* np.mean(calibration_samples, axis=0)
Mean(samples) ==
    [axis \in 1..6 |->
        SDivInt(ColumnSum(samples, axis, Len(samples)), Len(samples))]

\* The sample counts calibration.calibrate is called with.
SampleCounts == {1, NUMBER_OF_CALIBRATION_SAMPLES}

\* The exception of a failed register read (bus.read_byte_data).
SourceError == "OSError"

\* No reading yet.
NoReading == [accelerometer_data |-> << >>, temperature_deg |-> Fix(0),
              gyroscope_data |-> << >>]

\* The six values of a sensor output, as the sensor delivers them.
NativeSix(raw) == raw.accelerometer_data \o raw.gyroscope_data

\* The correction of main in run.py (CALIBRATE set): the reading raw with
\* the values err of calibration.calibrate subtracted.
main_corrected_reading(raw, err) ==
    LET acc_x == SSub(raw.accelerometer_data[1], err[1])
        acc_y == SSub(raw.accelerometer_data[2], err[2])
        acc_z == SSub(raw.accelerometer_data[3], SAdd(err[3], Fix(1)))
        gyro_x == SSub(raw.gyroscope_data[1], err[4])
        gyro_y == SSub(raw.gyroscope_data[2], err[5])
        gyro_z == SSub(raw.gyroscope_data[3], err[6])
    IN  <<acc_x, acc_y, acc_z, gyro_x, gyro_y, gyro_z, raw.temperature_deg>>

\* ------------------------------------------------------------------------
\* Angles and rates of the fusion
\* ------------------------------------------------------------------------

\* The exact real number (n + pi180 * pi/180) / d in lowest terms, d > 0:
\* a number of radians, degrees or degrees per second.
AngleIn[t \in Int \X Int \X Int] ==
    LET g == GCD(GCD(AbsInt(t[1]), AbsInt(t[2])), AbsInt(t[3]))
        s == IF t[3] < 0 THEN -g ELSE g
    IN  [n |-> t[1] \div s, pi180 |-> t[2] \div s, d |-> t[3] \div s]

Angle(n, pi180, d) == AngleIn[<<n, pi180, d>>]

\* A sensor reading, as such a number.
AngleOf(x) == Angle(x.n, x.pi180, Unit)

\* The angle k*pi/4 of the trigonometry grid.
GridAngle(k) == Angle(0, 45 * k, 1)

\* The element of a singleton.
The(S) == CHOOSE v \in S : TRUE

\* The float nan, which numpy returns for 0 / 0.0: the one such record with
\* d = 0.
ANaN == [n |-> 0, pi180 |-> 0, d |-> 0]

\* x + y; nan if either is nan.
AAdd(x, y) ==
    IF x.d = 0 \/ y.d = 0 THEN ANaN
    ELSE The({LET g == GCD(u.d, v.d)
                  fu == v.d \div g
                  fv == u.d \div g
              IN  Angle(u.n * fu + v.n * fv, u.pi180 * fu + v.pi180 * fv,
                        u.d * fu) : u \in {x}, v \in {y}})

\* The number 0.
AZero == Angle(0, 0, 1)

\* x * num / den for integers num and den # 0; nan if x is nan, also when
\* num is 0.
AScale(x, num, den) ==
    IF x.d = 0 THEN ANaN
    ELSE The({Angle(u.n * num, u.pi180 * num, u.d * den) : u \in {x}})

\* A sensor reading free of pi, as a number of Q(sqrt 2).
Plain(x) == Rat(x.n, Unit)

\* ------------------------------------------------------------------------
\* pimu/sensorboard.py: Tait-Bryan angles from the sensor data
\* ------------------------------------------------------------------------

\* gyroscope_data_to_taitbryan: (delta_yaw, delta_pitch, delta_roll).
gyroscope_data_to_taitbryan(gyro_x, gyro_y, gyro_z, delta_time_ms) ==
    LET delta_yaw == AScale(AngleOf(gyro_z), delta_time_ms, 1000)
        delta_pitch == AScale(AngleOf(gyro_y), delta_time_ms, 1000)
        delta_roll == AScale(AngleOf(gyro_x), delta_time_ms, 1000)
    IN  <<delta_yaw, delta_pitch, delta_roll>>

\* np.cross
Cross(u, v) ==
    <<Sub(Mul(u[2], v[3]), Mul(u[3], v[2])),
      Sub(Mul(u[3], v[1]), Mul(u[1], v[3])),
      Sub(Mul(u[1], v[2]), Mul(u[2], v[1]))>>

\* np.linalg.norm of a vector
VecNorm(v) ==
    Sqrt(Add(Add(Mul(v[1], v[1]), Mul(v[2], v[2])), Mul(v[3], v[3])))

\* A vector divided by a number.
VecDiv(v, s) == <<Div(v[1], s), Div(v[2], s), Div(v[3], s)>>

\* accelerometer_data_to_taitbryan: (yaw, pitch, roll) from the rotation
\* matrix whose rows are to_north, to_east and to_ground.
accelerometer_data_to_taitbryan(acc_x, acc_y, acc_z) ==
    LET gravity_vec == <<acc_x, acc_y, acc_z>>
        to_ground == VecDiv(gravity_vec, VecNorm(gravity_vec))
        board_y_axis == <<Zero, One, Zero>>
        board_x_axis == <<One, Zero, Zero>>
        to_north_0 == Cross(board_y_axis, to_ground)
        norm_to_north_vector == VecNorm(to_north_0)
        on_a_side == Less(norm_to_north_vector, Rat(1, 1000000))
        to_east_0 == Cross(to_ground, board_x_axis)
        to_east_1 == VecDiv(to_east_0, VecNorm(to_east_0))
        to_north == IF on_a_side THEN Cross(to_east_1, to_ground)
                    ELSE VecDiv(to_north_0, norm_to_north_vector)
        to_east == IF on_a_side THEN to_east_1
                   ELSE Cross(to_ground, to_north)
        reference_to_body_rotation_matrix ==
            Array2(<<to_north, to_east, to_ground>>)
    IN  tait_bryan_angles_from_rotation_matrix(
            reference_to_body_rotation_matrix).value

\* accelerometer_data_to_taitbryan as main calls it, in radians.  The
\* function divides by the norm unguarded: for the zero vector numpy
\* divides 0 by 0.0 to nan (a RuntimeWarning, no exception), and nan goes
\* through the cross products, the norms, the comparison with 1e-6 (False),
\* the two lock tests (False), arcsin and arctan2, so (nan, nan, nan) is
\* returned.
accelerometer_data_to_taitbryan_rad(acc_x, acc_y, acc_z) ==
    IF VecNorm(<<acc_x, acc_y, acc_z>>) = Zero THEN <<ANaN, ANaN, ANaN>>
    ELSE The({<<GridAngle(a[1]), GridAngle(a[2]), GridAngle(a[3])>> :
                 a \in {accelerometer_data_to_taitbryan(acc_x, acc_y,
                                                        acc_z)}})

\* TEMP_pitch_roll_from_accelerometer: (yaw, pitch, roll) in closed form.
TEMP_pitch_roll_from_accelerometer(acc_x, acc_y, acc_z) ==
    LET acc_vector == <<acc_x, acc_y, acc_z>>
        gravity == VecDiv(acc_vector, VecNorm(acc_vector))
        x == gravity[1]
        y == gravity[2]
        z == gravity[3]
        yaw == 0
        pitch == Arctan2(Neg(x), Sqrt(Add(Mul(y, y), Mul(z, z))))
        roll == Arctan2(y, z)
    IN  <<yaw, pitch, roll>>

\* The accelerometer vectors the two tilt functions are called with: every
\* vector with components in {-1, 0, 1} that has one or two non-zero
\* components (the board level, upside down, on a side, nose up or down, and
\* halfway between two of these), and two vectors of another length.
TiltInputs ==
    {v \in {<<Num(i), Num(j), Num(k)>> : i, j, k \in -1..1} :
        Cardinality({c \in 1..3 : v[c] # Zero}) \in {1, 2}}
    \cup {<<Zero, Zero, Num(2)>>, <<Zero, Rat(-1, 2), Rat(1, 2)>>}

\* A vector 4.4e-8 off the nose-up direction (-1, 0, 0): its length is 3363
\* and its first component -2378*sqrt(2), so the normalised first component
\* is within 1e-6 of -1 without being -1.
NearNoseUp == <<[a |-> 0, b |-> -2378, d |-> 1], One, Zero>>

\* accelerometer_data_to_taitbryan is also called with NearNoseUp; the
\* closed form has no result on the pi/4 grid there.
MatrixTiltInputs == TiltInputs \cup {NearNoseUp}

\* The rates (deg/s, board frame) and intervals (ms) the gyroscope function
\* is called with.
GyroRates == {Fix(k) : k \in {-1, 0, 2}}

DeltaTimes == {-500, 0, 1, 1000, 2500}

\* ------------------------------------------------------------------------
\* pimu/imu.py and pimu/debugger.py: the fusion of the two estimates
\* ------------------------------------------------------------------------

\* sb.pitch_and_roll_from_accelerometer_data, which Imu.read_yaw_pitch_roll
\* calls and sensorboard.py does not define: the accelerometer tilt path of
\* the specification, (pitch, roll) of the normalised vector.
pitch_and_roll_from_accelerometer_data(acc_x, acc_y, acc_z) ==
    LET acc_vector == <<acc_x, acc_y, acc_z>>
        g == VecDiv(acc_vector, VecNorm(acc_vector))
        pitch_acc == Arctan2(Neg(g[1]),
                             Sqrt(Add(Mul(g[2], g[2]), Mul(g[3], g[3]))))
        roll_acc == Arctan2(g[2], g[3])
    IN  <<pitch_acc, roll_acc>>

\* The guard of that tilt path: it ends in the error DegenerateVector,
\* without dividing, when the norm of the vector is zero.
DegenerateVector(acc_x, acc_y, acc_z) ==
    VecNorm(<<acc_x, acc_y, acc_z>>) = Zero

\* sb.gyroscope_data_to_taitbryan_deltas, which Imu.read_yaw_pitch_roll
\* calls and sensorboard.py does not define: the gyro delta path of the
\* specification, each rate converted to rad/s and multiplied by
\* delta_time_ms / 1000, in the order Z, Y, X.
gyroscope_data_to_taitbryan_deltas(gyro_x, gyro_y, gyro_z, delta_time_ms) ==
    <<AScale(AngleOf(deg2rad(gyro_z)), delta_time_ms, 1000),
      AScale(AngleOf(deg2rad(gyro_y)), delta_time_ms, 1000),
      AScale(AngleOf(deg2rad(gyro_x)), delta_time_ms, 1000)>>

\* The decimal literals 0.8 and 0.2 of Imu.read_yaw_pitch_roll and the
\* acc_weight = 0. of Board.rotate, as fractions.
ImuAccWeight == [num |-> 4, den |-> 5]

ImuGyroWeight == [num |-> 1, den |-> 5]

acc_weight == [num |-> 0, den |-> 1]

\* weight * x
Weighted(weight, x) == AScale(x, weight.num, weight.den)

\* 1 - weight
OneMinus(weight) == [num |-> weight.den - weight.num, den |-> weight.den]

\* The orientation attributes and the clock attribute after Imu.__init__
\* at the instant now_ms.
ImuObject(now_ms) ==
    [_yaw_rad |-> AZero, _pitch_rad |-> AZero, _roll_rad |-> AZero,
     _prev_time_ms |-> now_ms]

\* Imu.read_yaw_pitch_roll with the yaw weighted like the pitch and roll.
read_yaw_pitch_roll_yaw_blended(self, reading, curr_time_ms) ==
    LET delta_time_ms == curr_time_ms - self._prev_time_ms
        acc == pitch_and_roll_from_accelerometer_data(
                   Plain(reading[1]), Plain(reading[2]), Plain(reading[3]))
        acc_pitch_rad == GridAngle(acc[1])
        acc_roll_rad == GridAngle(acc[2])
        deltas == gyroscope_data_to_taitbryan_deltas(
                      reading[4], reading[5], reading[6], delta_time_ms)
        _yaw_rad == Weighted(ImuGyroWeight, AAdd(self._yaw_rad, deltas[1]))
        _pitch_rad ==
            AAdd(Weighted(ImuAccWeight, acc_pitch_rad),
                 Weighted(ImuGyroWeight, AAdd(self._pitch_rad, deltas[2])))
        _roll_rad ==
            AAdd(Weighted(ImuAccWeight, acc_roll_rad),
                 Weighted(ImuGyroWeight, AAdd(self._roll_rad, deltas[3])))
    IN  [self |-> [_yaw_rad |-> _yaw_rad, _pitch_rad |-> _pitch_rad,
                   _roll_rad |-> _roll_rad, _prev_time_ms |-> curr_time_ms],
         output |-> <<_yaw_rad, _pitch_rad, _roll_rad, reading[7]>>,
         acc |-> <<AZero, acc_pitch_rad, acc_roll_rad>>,
         deltas |-> deltas]

\* Imu.read_yaw_pitch_roll with an interval of at least one millisecond.
read_yaw_pitch_roll_at_least_one_ms(self, reading, curr_time_ms) ==
    LET elapsed_ms == curr_time_ms - self._prev_time_ms
        delta_time_ms == IF elapsed_ms < 1 THEN 1 ELSE elapsed_ms
        acc == pitch_and_roll_from_accelerometer_data(
                   Plain(reading[1]), Plain(reading[2]), Plain(reading[3]))
        acc_pitch_rad == GridAngle(acc[1])
        acc_roll_rad == GridAngle(acc[2])
        deltas == gyroscope_data_to_taitbryan_deltas(
                      reading[4], reading[5], reading[6], delta_time_ms)
        _yaw_rad == AAdd(self._yaw_rad, deltas[1])
        _pitch_rad ==
            AAdd(Weighted(ImuAccWeight, acc_pitch_rad),
                 Weighted(ImuGyroWeight, AAdd(self._pitch_rad, deltas[2])))
        _roll_rad ==
            AAdd(Weighted(ImuAccWeight, acc_roll_rad),
                 Weighted(ImuGyroWeight, AAdd(self._roll_rad, deltas[3])))
    IN  [self |-> [_yaw_rad |-> _yaw_rad, _pitch_rad |-> _pitch_rad,
                   _roll_rad |-> _roll_rad, _prev_time_ms |-> curr_time_ms],
         output |-> <<_yaw_rad, _pitch_rad, _roll_rad, reading[7]>>,
         acc |-> <<AZero, acc_pitch_rad, acc_roll_rad>>,
         deltas |-> deltas]

\* Imu.read_yaw_pitch_roll on the object self, for the tuple reading that
\* read_next returns and the clock value curr_time_ms: the attributes after
\* the call, the tuple returned, and the two estimates it blended.
read_yaw_pitch_roll(self, reading, curr_time_ms) ==
    LET delta_time_ms == curr_time_ms - self._prev_time_ms
        acc == pitch_and_roll_from_accelerometer_data(
                   Plain(reading[1]), Plain(reading[2]), Plain(reading[3]))
        acc_pitch_rad == GridAngle(acc[1])
        acc_roll_rad == GridAngle(acc[2])
        deltas == gyroscope_data_to_taitbryan_deltas(
                      reading[4], reading[5], reading[6], delta_time_ms)
        _yaw_rad == AAdd(self._yaw_rad, deltas[1])
        _pitch_rad ==
            AAdd(Weighted(ImuAccWeight, acc_pitch_rad),
                 Weighted(ImuGyroWeight, AAdd(self._pitch_rad, deltas[2])))
        _roll_rad ==
            AAdd(Weighted(ImuAccWeight, acc_roll_rad),
                 Weighted(ImuGyroWeight, AAdd(self._roll_rad, deltas[3])))
    IN  [self |-> [_yaw_rad |-> _yaw_rad, _pitch_rad |-> _pitch_rad,
                   _roll_rad |-> _roll_rad, _prev_time_ms |-> curr_time_ms],
         output |-> <<_yaw_rad, _pitch_rad, _roll_rad, reading[7]>>,
         acc |-> <<AZero, acc_pitch_rad, acc_roll_rad>>,
         deltas |-> deltas]

\* The three angles after Board.__init__.
BoardObject == [_yaw |-> AZero, _pitch |-> AZero, _roll |-> AZero]

\* Board.rotate with the two weights exchanged.
rotate_weights_swapped(self, acc_yaw, acc_pitch, acc_roll, gyro_yaw_delta, gyro_pitch_delta, gyro_roll_delta) ==
    LET gyro_yaw == AAdd(self._yaw, gyro_yaw_delta)
        gyro_pitch == AAdd(self._pitch, gyro_pitch_delta)
        gyro_roll == AAdd(self._roll, gyro_roll_delta)
    IN  [_yaw |-> gyro_yaw,
         _pitch |-> AAdd(Weighted(OneMinus(acc_weight), acc_pitch),
                         Weighted(acc_weight, gyro_pitch)),
         _roll |-> AAdd(Weighted(OneMinus(acc_weight), acc_roll),
                        Weighted(acc_weight, gyro_roll))]

\* Board.rotate: the three angles after the call.  The vertices and axes
\* it draws are the rotation by these angles of fixed arrays and are not
\* kept.
rotate(self, acc_yaw, acc_pitch, acc_roll, gyro_yaw_delta, gyro_pitch_delta, gyro_roll_delta) ==
    LET gyro_yaw == AAdd(self._yaw, gyro_yaw_delta)
        gyro_pitch == AAdd(self._pitch, gyro_pitch_delta)
        gyro_roll == AAdd(self._roll, gyro_roll_delta)
    IN  [_yaw |-> gyro_yaw,
         _pitch |-> AAdd(Weighted(acc_weight, acc_pitch),
                         Weighted(OneMinus(acc_weight), gyro_pitch)),
         _roll |-> AAdd(Weighted(acc_weight, acc_roll),
                        Weighted(OneMinus(acc_weight), gyro_roll))]

\* How many samples one engine is given.
MaxUpdates == 3

\* The sensor outputs behind the samples (g, deg/s, sensor frame): with
\* and without the correction of read_next their accelerometer vectors
\* have tilts on the pi/4 grid.
FusionReadings ==
    {Reading(1, 0, -1, 20, 1, -1, 2),
     Reading(0, -1, -1, 21, 0, 2, 0),
     Reading(1, 0, 0, 22, 0, 0, 0)}

\* Sensor outputs at the edges of the input: a board in free fall turning
\* fast, a level board at rest with a slow gyroscope, and a board on its side
\* turning fast.  read_next turns the first into an upside-down board and
\* the second into the zero vector.
EdgeReadings ==
    {Reading(0, 0, 0, 23, 200, 200, 0),
     Reading(0, 0, -1, 24, 1, -1, 2),
     Reading(1, 0, 0, 25, 200, 200, 0)}

\* The intervals between two samples, in ms.
FusionDeltaTimes == {-500, 0, 1000}

\* The clock when the engine is constructed, in ms since a reference.
StartTimesMs == {0, 1000}

\* The blend weights a configuration may ask for.
BlendWeights ==
    {[num |-> 0, den |-> 1], [num |-> 1, den |-> 2], [num |-> 1, den |-> 1]}

\* prev_time_ms = None, and a value of it.
None == << >>

Some(t) == <<t>>

\* json.dumps of a list of four floats, as the tokens of the text.
json_dumps_temperature_first(obj) ==
    <<"[", obj[4], ", ", obj[1], ", ", obj[2], ", ", obj[3], "]">>

json_dumps(obj) ==
    <<"[", obj[1], ", ", obj[2], ", ", obj[3], ", ", obj[4], "]">>

\* No call of Imu.read_yaw_pitch_roll has ended in an exception.
NoneRaised == [error |-> "none", before |-> ImuObject(0),
               after |-> ImuObject(0)]

\* No update yet.
NoFusion == [old |-> << >>, acc |-> << >>, deltas |-> << >>, new |-> << >>,
             output |-> << >>]

\* ------------------------------------------------------------------------
\* pimu/imu.py: Imu.read_yaw_pitch_roll statement by statement
\* ------------------------------------------------------------------------

\* The callers of one Imu object.
Threads == {1, 2}

\* The sensor outputs the two calls may get, and how far the clock may
\* move between two readings of it, in ms.
ThreadReadings ==
    {Reading(1, 0, -1, 20, 1, -1, 2), Reading(0, -1, -1, 21, 0, 2, 0)}

ClockSteps == {0, 1000}

\* The local variables of a call that has not started.
NoFrame ==
    [reading |-> << >>, curr_time_ms |-> 0, delta_time_ms |-> 0,
     acc |-> << >>, deltas |-> << >>, loaded |-> AZero, output |-> << >>]

\* The attribute the statement at a line assigns, and the line after it.
AttributeAt(line) ==
    CASE line = "47" -> "_yaw_rad"
      [] line = "48" -> "_pitch_rad"
      [] line = "50" -> "_roll_rad"

\* Where a thread is between the two halves of such a statement.
Storing(line) ==
    CASE line = "47" -> "47 store"
      [] line = "48" -> "48 store"
      [] line = "50" -> "50 store"

LineAfter(line) ==
    CASE line = "47" -> "48"
      [] line = "48" -> "50"
      [] line = "50" -> "53"

\* The assignments of lines 48-51 without the old value.
assigned_without_old(line, fr) ==
    CASE line = "47" -> AAdd(fr.loaded, fr.deltas[1])
      [] line = "48" ->
            AAdd(Weighted(ImuAccWeight, fr.acc[1]),
                 Weighted(ImuGyroWeight, fr.deltas[2]))
      [] line = "50" ->
            AAdd(Weighted(ImuAccWeight, fr.acc[2]),
                 Weighted(ImuGyroWeight, fr.deltas[3]))

\* What the statement at line 47, 48 or 50 assigns, fr.loaded being the
\* value of the attribute it read.
assigned(line, fr) ==
    CASE line = "47" -> AAdd(fr.loaded, fr.deltas[1])
      [] line = "48" ->
            AAdd(Weighted(ImuAccWeight, fr.acc[1]),
                 Weighted(ImuGyroWeight, AAdd(fr.loaded, fr.deltas[2])))
      [] line = "50" ->
            AAdd(Weighted(ImuAccWeight, fr.acc[2]),
                 Weighted(ImuGyroWeight, AAdd(fr.loaded, fr.deltas[3])))

\* ------------------------------------------------------------------------
\* The 16-bit registers of the MPU-6050
\* ------------------------------------------------------------------------

\* What bus.read_byte_data can return: one byte.
Bytes == 0..255

\* The low bytes the reads are tried with; the high byte takes every value.
LowBytes == {0, 1, 128, 255}

\* (high << 8) | low of two bytes: the bits of the two operands are disjoint.
ShiftOr(high, low) == high * Pow(2, 8) + low

\* sensor._complement2_to_signed
_complement2_to_signed(value) ==
    IF value > Pow(2, 15) THEN value - Pow(2, 16) ELSE value

\* sensor._read_double_register_data, after the two reads of the bus.
_read_double_register_data(high, low) ==
    LET value == ShiftOr(high, low)
        signed_value == _complement2_to_signed(value)
    IN  signed_value

\* _read_double_register_data of pimu.py, after the two reads of the bus.
pimu_read_double_register_data(high, low) ==
    LET value == ShiftOr(high, low)
        signed_value == IF value > Pow(2, 15) THEN value - Pow(2, 16)
                        ELSE value
    IN  signed_value

\* ------------------------------------------------------------------------
\* State
\* ------------------------------------------------------------------------

VARIABLES
    mode,             \* which sequence of geometry calls is being made
    pc,               \* the next call of that sequence
    yaw_rad,          \* the angles build_rotation_matrix is called with, or
                      \* the angles the extractor's input was made from
    pitch_rad,
    roll_rad,
    rotation_matrix,  \* build_rotation_matrix's result / the extractor's input
    angles,           \* what tait_bryan_angles_from_rotation_matrix returned
    entries_read,     \* the entries of rotation_matrix that call read
    rebuilt,          \* build_rotation_matrix of the extracted angles
    adapter_fn,       \* the coordinate adapter that was called, or "none"
    adapter_in,       \* its arguments (x, y, z)
    adapter_out,      \* its result
    calib_routine,    \* "Imu" (Imu.calibrate) or "calibration"
                      \* (calibration.calibrate)
    calib_pc,         \* where that routine is
    bias,             \* the six _..._bias attributes of the Imu
    num_calibration_samples,  \* the number of samples of a calibration
    calibration_samples,      \* the array of samples of the routine
    sample_idx,       \* its loop index
    delivered,        \* the samples the source returned during this pass
    calibrations,     \* completed calls of Imu.calibrate
    do_calibration,   \* the operator's answer to 'Press Y to calibrate'
    calibration,      \* what calibration.calibrate returned
    raw_delivered,    \* the sensor outputs behind the samples of this pass
    source_reads,     \* the reads of the sensor this pass has started
    bias_at_call,     \* the bias attributes when Imu.calibrate was called
    calib_raised,     \* the exception the routine let through, or "none"
    live_raw,         \* the sensor output behind the last live reading
    live,             \* the last live reading, bias-corrected
    \* a call of a Tait-Bryan function of pimu/sensorboard.py
    sb_fn,            \* the function called, or "none"
    sb_in,            \* its arguments
    sb_out,           \* what it returned
    \* the fusion engine
    engine,           \* "Imu" (Imu.read_yaw_pitch_roll) or "Board"
                      \* (main and Board.rotate of debugger.py)
    imu,              \* the orientation and clock attributes of the Imu
    board,            \* the three angles of the Board
    prev_time_ms,     \* prev_time_ms of main in debugger.py
    updates,          \* the samples the engine has been given
    fusion,           \* the last blend: angles before, the two estimates,
                      \* angles after, tuple returned
    gyro_history,     \* per blend, the gyroscope output and the interval
    blend_weight,     \* the blend weight the configuration asks for
    source,           \* the outputs the sensor can deliver during this run
    raised,           \* the last call of Imu.read_yaw_pitch_roll that ended
                      \* in an exception: the exception and the attributes
                      \* of the Imu before and after the call
    \* a read of a pair of registers
    reg_fn,           \* the module whose _read_double_register_data was
                      \* called ("sensor" or "pimu"), or "none"
    reg_in,           \* the bytes the bus returns: high, low
    reg_out,          \* what the call returned
    \* the orientation server
    sent,             \* the datagrams MPU6050Server.run has sent
    \* two threads calling Imu.read_yaw_pitch_roll on one Imu
    thread_pc,        \* per thread, the line it is about to execute
    frame,            \* per thread, its local variables
    synchronized,     \* whether the callers hold a lock around the call
    now_ms            \* the clock

geomVars ==
    <<mode, pc, yaw_rad, pitch_rad, roll_rad, rotation_matrix, angles,
      entries_read, rebuilt>>

adapterVars == <<adapter_fn, adapter_in, adapter_out>>

calibVars ==
    <<calib_routine, calib_pc, bias, num_calibration_samples,
      calibration_samples, sample_idx, delivered, calibrations,
      do_calibration, calibration, raw_delivered, source_reads,
      bias_at_call, calib_raised, live_raw, live>>

sbVars == <<sb_fn, sb_in, sb_out>>

fusionVars ==
    <<engine, imu, board, prev_time_ms, updates, fusion, gyro_history,
      blend_weight, source, raised>>

regVars == <<reg_fn, reg_in, reg_out>>

serverVars == <<sent>>

threadVars == <<thread_pc, frame, synchronized, now_ms>>

vars ==
    <<geomVars, adapterVars, calibVars, sbVars, fusionVars, regVars,
      serverVars, threadVars>>

\* The components other than the engine, the server and the threads.
nonEngineVars == <<geomVars, adapterVars, calibVars, sbVars, regVars>>

\* What an action of one component leaves alone.
nonGeomVars ==
    <<adapterVars, calibVars, sbVars, fusionVars, regVars,
      serverVars, threadVars>>

nonAdapterVars ==
    <<geomVars, calibVars, sbVars, fusionVars, regVars,
      serverVars, threadVars>>

nonCalibVars ==
    <<geomVars, adapterVars, sbVars, fusionVars, regVars,
      serverVars, threadVars>>

nonSbVars ==
    <<geomVars, adapterVars, calibVars, fusionVars, regVars,
      serverVars, threadVars>>

nonFusionVars ==
    <<geomVars, adapterVars, calibVars, sbVars, regVars,
      serverVars, threadVars>>

nonRegVars ==
    <<geomVars, adapterVars, calibVars, sbVars, fusionVars, serverVars,
      threadVars>>

\* ------------------------------------------------------------------------
\* The geometry calls
\* ------------------------------------------------------------------------

GeometryIdle ==
    /\ mode = "idle"
    /\ pc = "done"
    /\ yaw_rad = 0
    /\ pitch_rad = 0
    /\ roll_rad = 0
    /\ rotation_matrix = NoArray
    /\ angles = NoResult
    /\ entries_read = {}
    /\ rebuilt = NoArray

\* One of four call sequences: build a matrix from grid angles; build,
\* extract and build again (here the angles are multiples of pi/2, which
\* keeps every extracted angle on the grid); extract the angles of the
\* matrix the unit tests expect for (yaw_rad, pitch_rad, roll_rad); extract
\* the angles of some other array.
GeometryCalls ==
    /\ angles = NoResult
    /\ entries_read = {}
    /\ rebuilt = NoArray
    /\ \/ /\ mode = "build"
          /\ pc = "build"
          /\ yaw_rad \in Angles
          /\ pitch_rad \in Angles
          /\ roll_rad \in Angles
          /\ rotation_matrix = NoArray
       \/ /\ mode = "roundtrip"
          /\ pc = "build"
          /\ yaw_rad \in RightAngles
          /\ pitch_rad \in RightAngles
          /\ roll_rad \in RightAngles
          /\ rotation_matrix = NoArray
       \/ /\ mode = "recover"
          /\ pc = "extract"
          /\ yaw_rad \in Angles
          /\ pitch_rad \in PitchAngles
          /\ roll_rad \in Angles
          /\ rotation_matrix =
                ExpectedRotationMatrix(yaw_rad, pitch_rad, roll_rad)
       \/ /\ mode = "extract"
          /\ pc = "extract"
          /\ yaw_rad = 0
          /\ pitch_rad = 0
          /\ roll_rad = 0
          /\ rotation_matrix \in ArrayInputs

\* rotation_matrix = build_rotation_matrix(yaw_rad, pitch_rad, roll_rad)
Build ==
    /\ pc = "build"
    /\ rotation_matrix' = build_rotation_matrix(yaw_rad, pitch_rad, roll_rad)
    /\ pc' = IF mode = "roundtrip" THEN "extract" ELSE "done"
    /\ UNCHANGED <<mode, yaw_rad, pitch_rad, roll_rad, angles, entries_read,
                   rebuilt>>
    /\ UNCHANGED nonGeomVars

\* angles = tait_bryan_angles_from_rotation_matrix(rotation_matrix)
Extract ==
    /\ pc = "extract"
    /\ angles' = tait_bryan_angles_from_rotation_matrix(rotation_matrix)
    /\ entries_read' = EntriesRead(rotation_matrix)
    /\ pc' = IF mode = "roundtrip" THEN "rebuild" ELSE "done"
    /\ UNCHANGED <<mode, yaw_rad, pitch_rad, roll_rad, rotation_matrix,
                   rebuilt>>
    /\ UNCHANGED nonGeomVars

\* yaw, pitch, roll = angles; rebuilt = build_rotation_matrix(yaw, pitch, roll)
Rebuild ==
    /\ pc = "rebuild"
    /\ rebuilt' = build_rotation_matrix(angles.value[1], angles.value[2],
                                        angles.value[3])
    /\ pc' = "done"
    /\ UNCHANGED <<mode, yaw_rad, pitch_rad, roll_rad, rotation_matrix,
                   angles, entries_read>>
    /\ UNCHANGED nonGeomVars

\* ------------------------------------------------------------------------
\* The adapter calls
\* ------------------------------------------------------------------------

AdapterIdle ==
    /\ adapter_fn = "none"
    /\ adapter_in = <<Fix(0), Fix(0), Fix(0)>>
    /\ adapter_out = << >>

AdapterCalls ==
    /\ adapter_fn = "none"
    /\ adapter_in \in AdapterInputs
    /\ adapter_out = << >>

CallAccelerometerToBoard ==
    /\ adapter_fn = "none"
    /\ adapter_fn' = "accelerometer_data_to_board_system"
    /\ adapter_out' = accelerometer_data_to_board_system(
                          adapter_in[1], adapter_in[2], adapter_in[3])
    /\ UNCHANGED <<adapter_in, nonAdapterVars>>

CallGyroscopeToBoard ==
    /\ adapter_fn = "none"
    /\ adapter_fn' = "gyroscope_data_to_board_system"
    /\ adapter_out' = gyroscope_data_to_board_system(
                          adapter_in[1], adapter_in[2], adapter_in[3])
    /\ UNCHANGED <<adapter_in, nonAdapterVars>>

CallAccelerometerToConventional ==
    /\ adapter_fn = "none"
    /\ adapter_fn' = "accelerometer_data_to_conventional_system"
    /\ adapter_out' = accelerometer_data_to_conventional_system(
                          adapter_in[1], adapter_in[2], adapter_in[3])
    /\ UNCHANGED <<adapter_in, nonAdapterVars>>

CallGyroscopeToConventional ==
    /\ adapter_fn = "none"
    /\ adapter_fn' = "gyroscope_data_to_conventional_system"
    /\ adapter_out' = gyroscope_data_to_conventional_system(
                          adapter_in[1], adapter_in[2], adapter_in[3])
    /\ UNCHANGED <<adapter_in, nonAdapterVars>>

\* ------------------------------------------------------------------------
\* Calibration
\* ------------------------------------------------------------------------

\* The state after Imu.__init__, before any calibration.
CalibrationIdle ==
    /\ calib_routine = "Imu"
    /\ calib_pc = "idle"
    /\ bias = ZeroBias
    /\ num_calibration_samples = NUMBER_OF_CALIBRATION_SAMPLES
    /\ calibration_samples = << >>
    /\ sample_idx = 0
    /\ delivered = << >>
    /\ calibrations = 0
    /\ do_calibration = FALSE
    /\ calibration = << >>
    /\ raw_delivered = << >>
    /\ source_reads = 0
    /\ bias_at_call = ZeroBias
    /\ calib_raised = "none"
    /\ live_raw = NoReading
    /\ live = << >>

\* Either an Imu that will be calibrated, or a call of
\* calibration.calibrate(bus, device_address, num_calibration_samples).
CalibrationCalls ==
    /\ bias = ZeroBias
    /\ calibration_samples = << >>
    /\ sample_idx = 0
    /\ delivered = << >>
    /\ calibrations = 0
    /\ do_calibration = FALSE
    /\ calibration = << >>
    /\ raw_delivered = << >>
    /\ source_reads = 0
    /\ bias_at_call = ZeroBias
    /\ calib_raised = "none"
    /\ live_raw = NoReading
    /\ live = << >>
    /\ \/ /\ calib_routine = "Imu"
          /\ calib_pc = "idle"
          /\ num_calibration_samples = NUMBER_OF_CALIBRATION_SAMPLES
       \/ /\ calib_routine = "calibration"
          /\ calib_pc = "prompt"
          /\ num_calibration_samples \in SampleCounts

\* Imu.calibrate up to the allocation of calibration_samples.  The caller
\* may call it again after a pass that raised.
ImuCalibrateBegin ==
    /\ calib_routine = "Imu"
    /\ calib_pc \in {"idle", "raised"}
    /\ calibrations < MaxCalibrations
    /\ calibration_samples' = ZeroSamples(NUMBER_OF_CALIBRATION_SAMPLES)
    /\ sample_idx' = 0
    /\ delivered' = << >>
    /\ raw_delivered' = << >>
    /\ source_reads' = 0
    /\ bias_at_call' = bias
    /\ calib_raised' = "none"
    /\ live_raw' = NoReading
    /\ live' = << >>
    /\ calib_pc' = "sampling"
    /\ UNCHANGED <<calib_routine, bias, num_calibration_samples,
                   calibrations, do_calibration, calibration>>
    /\ UNCHANGED nonCalibVars

\* One iteration of the loop of Imu.calibrate: read_next and store.
ImuCalibrateSample ==
    /\ calib_routine = "Imu"
    /\ calib_pc = "sampling"
    /\ sample_idx < NUMBER_OF_CALIBRATION_SAMPLES
    /\ \E raw \in Source :
          LET sample == read_next(raw, bias)
          IN  /\ calibration_samples' =
                    [calibration_samples EXCEPT ![sample_idx + 1] =
                        SixOf(sample)]
              /\ delivered' = Append(delivered, SixOf(sample))
              /\ raw_delivered' = Append(raw_delivered, raw)
    /\ source_reads' = source_reads + 1
    /\ sample_idx' = sample_idx + 1
    /\ UNCHANGED <<calib_routine, calib_pc, bias, num_calibration_samples,
                   calibrations, do_calibration, calibration, bias_at_call,
                   calib_raised, live_raw, live>>
    /\ UNCHANGED nonCalibVars

ImuCalibrateSampleRaisesPartialMean ==
    /\ calib_routine = "Imu"
    /\ calib_pc = "sampling"
    /\ sample_idx < NUMBER_OF_CALIBRATION_SAMPLES
    /\ source_reads' = source_reads + 1
    /\ calib_raised' = SourceError
    /\ calib_pc' = "raised"
    /\ LET mean == Mean(calibration_samples)
       IN  bias' = [acc_x |-> mean[1], acc_y |-> mean[2], acc_z |-> mean[3],
                    gyro_x |-> mean[4], gyro_y |-> mean[5],
                    gyro_z |-> mean[6]]
    /\ calibration_samples' = << >>
    /\ UNCHANGED <<calib_routine, num_calibration_samples, sample_idx,
                   delivered, calibrations, do_calibration, calibration,
                   raw_delivered, bias_at_call, live_raw, live>>
    /\ UNCHANGED nonCalibVars

\* An iteration of the loop of Imu.calibrate in which read_next raises: a
\* register read of the bus fails.  Nothing catches the exception, so it
\* leaves calibrate at line 66, before the bias attributes are assigned, and
\* the local array of samples is gone.
ImuCalibrateSampleRaises ==
    /\ calib_routine = "Imu"
    /\ calib_pc = "sampling"
    /\ sample_idx < NUMBER_OF_CALIBRATION_SAMPLES
    /\ source_reads' = source_reads + 1
    /\ calib_raised' = SourceError
    /\ calib_pc' = "raised"
    /\ calibration_samples' = << >>
    /\ UNCHANGED <<calib_routine, bias, num_calibration_samples, sample_idx,
                   delivered, calibrations, do_calibration, calibration,
                   raw_delivered, bias_at_call, live_raw, live>>
    /\ UNCHANGED nonCalibVars

\* The end of Imu.calibrate: the mean is stored in the six bias attributes.
ImuCalibrateEnd ==
    /\ calib_routine = "Imu"
    /\ calib_pc = "sampling"
    /\ sample_idx = NUMBER_OF_CALIBRATION_SAMPLES
    /\ LET mean == Mean(calibration_samples)
       IN  bias' = [acc_x |-> mean[1], acc_y |-> mean[2], acc_z |-> mean[3],
                    gyro_x |-> mean[4], gyro_y |-> mean[5],
                    gyro_z |-> mean[6]]
    /\ calibrations' = calibrations + 1
    /\ calib_pc' = "idle"
    /\ UNCHANGED <<calib_routine, num_calibration_samples,
                   calibration_samples, sample_idx, delivered,
                   do_calibration, calibration, raw_delivered, source_reads,
                   bias_at_call, calib_raised, live_raw, live>>
    /\ UNCHANGED nonCalibVars

\* A live reading: MPU6050.read_next outside calibrate.
ImuReadNext ==
    /\ calib_routine = "Imu"
    /\ calib_pc = "idle"
    /\ \E raw \in Source :
          /\ live_raw' = raw
          /\ live' = read_next(raw, bias)
    /\ UNCHANGED <<calib_routine, calib_pc, bias, num_calibration_samples,
                   calibration_samples, sample_idx, delivered, calibrations,
                   do_calibration, calibration, raw_delivered, source_reads,
                   bias_at_call, calib_raised>>
    /\ UNCHANGED nonCalibVars

\* calibration.calibrate up to its loop: the operator is asked, and the
\* function returns six zeros unless the answer is Y.
CalibratePrompt ==
    /\ calib_routine = "calibration"
    /\ calib_pc = "prompt"
    /\ \E answer \in BOOLEAN :
          /\ do_calibration' = answer
          /\ IF answer
             THEN /\ calibration_samples' =
                        ZeroSamples(num_calibration_samples)
                  /\ calib_pc' = "sampling"
                  /\ calibration' = calibration
             ELSE /\ calibration_samples' = calibration_samples
                  /\ calib_pc' = "returned"
                  /\ calibration' = [i \in 1..6 |-> Fix(0)]
    /\ sample_idx' = 0
    /\ UNCHANGED <<calib_routine, bias, num_calibration_samples, delivered,
                   calibrations, raw_delivered, source_reads, bias_at_call,
                   calib_raised, live_raw, live>>
    /\ UNCHANGED nonCalibVars

\* One iteration of the loop of calibration.calibrate.
CalibrateSample ==
    /\ calib_routine = "calibration"
    /\ calib_pc = "sampling"
    /\ sample_idx < num_calibration_samples
    /\ \E raw \in Source :
          LET sample == raw.accelerometer_data \o raw.gyroscope_data
          IN  /\ calibration_samples' =
                    [calibration_samples EXCEPT ![sample_idx + 1] = sample]
              /\ delivered' = Append(delivered, sample)
              /\ raw_delivered' = Append(raw_delivered, raw)
    /\ source_reads' = source_reads + 1
    /\ sample_idx' = sample_idx + 1
    /\ UNCHANGED <<calib_routine, calib_pc, bias, num_calibration_samples,
                   calibrations, do_calibration, calibration, bias_at_call,
                   calib_raised, live_raw, live>>
    /\ UNCHANGED nonCalibVars

\* An iteration of the loop of calibration.calibrate in which
\* pimu.read_accelerometer_data or pimu.read_gyroscope_data raises: the
\* exception leaves calibrate, which returns nothing.
CalibrateSampleRaises ==
    /\ calib_routine = "calibration"
    /\ calib_pc = "sampling"
    /\ sample_idx < num_calibration_samples
    /\ source_reads' = source_reads + 1
    /\ calib_raised' = SourceError
    /\ calib_pc' = "raised"
    /\ calibration_samples' = << >>
    /\ UNCHANGED <<calib_routine, bias, num_calibration_samples, sample_idx,
                   delivered, calibrations, do_calibration, calibration,
                   raw_delivered, bias_at_call, live_raw, live>>
    /\ UNCHANGED nonCalibVars

\* The end of calibration.calibrate: the mean is returned.
CalibrateReturn ==
    /\ calib_routine = "calibration"
    /\ calib_pc = "sampling"
    /\ ~(sample_idx < num_calibration_samples)
    /\ calibration' = Mean(calibration_samples)
    /\ calib_pc' = "returned"
    /\ UNCHANGED <<calib_routine, bias, num_calibration_samples,
                   calibration_samples, sample_idx, delivered, calibrations,
                   do_calibration, raw_delivered, source_reads, bias_at_call,
                   calib_raised, live_raw, live>>
    /\ UNCHANGED nonCalibVars

\* One round of the reading loop of main in run.py with the values
\* calibration.calibrate returned: the sensor is read and the reading
\* corrected.
MainReadCorrected ==
    /\ calib_routine = "calibration"
    /\ calib_pc = "returned"
    /\ \E raw \in Source :
          /\ live_raw' = raw
          /\ live' = main_corrected_reading(raw, calibration)
    /\ UNCHANGED <<calib_routine, calib_pc, bias, num_calibration_samples,
                   calibration_samples, sample_idx, delivered, calibrations,
                   do_calibration, calibration, raw_delivered, source_reads,
                   bias_at_call, calib_raised>>
    /\ UNCHANGED nonCalibVars

\* ------------------------------------------------------------------------
\* Calls of the Tait-Bryan functions of pimu/sensorboard.py
\* ------------------------------------------------------------------------

\* The arguments of a call: an accelerometer vector (g, board frame), or
\* three rates and an interval.
AccArgs(v) == [kind |-> "acc", vec |-> v, delta_time_ms |-> 0]

GyroArgs(rates, dt) == [kind |-> "gyro", vec |-> rates, delta_time_ms |-> dt]

SensorboardInputs ==
    {AccArgs(v) : v \in MatrixTiltInputs}
    \cup {GyroArgs(<<x, y, z>>, dt) : x \in GyroRates, y \in GyroRates,
                                      z \in GyroRates, dt \in DeltaTimes}

SensorboardIdle ==
    /\ sb_fn = "none"
    /\ sb_in = AccArgs(<<Zero, Zero, One>>)
    /\ sb_out = << >>

SensorboardCalls ==
    /\ sb_fn = "none"
    /\ sb_in \in SensorboardInputs
    /\ sb_out = << >>

CallGyroscopeToTaitbryan ==
    /\ sb_fn = "none"
    /\ sb_in.kind = "gyro"
    /\ sb_fn' = "gyroscope_data_to_taitbryan"
    /\ sb_out' = gyroscope_data_to_taitbryan(
                      sb_in.vec[1], sb_in.vec[2], sb_in.vec[3],
                      sb_in.delta_time_ms)
    /\ UNCHANGED <<sb_in, nonSbVars>>

CallAccelerometerToTaitbryan ==
    /\ sb_fn = "none"
    /\ sb_in.kind = "acc"
    /\ sb_fn' = "accelerometer_data_to_taitbryan"
    /\ sb_out' = accelerometer_data_to_taitbryan(
                      sb_in.vec[1], sb_in.vec[2], sb_in.vec[3])
    /\ UNCHANGED <<sb_in, nonSbVars>>

CallTempPitchRoll ==
    /\ sb_fn = "none"
    /\ sb_in.kind = "acc"
    /\ sb_in.vec \in TiltInputs
    /\ sb_fn' = "TEMP_pitch_roll_from_accelerometer"
    /\ sb_out' = TEMP_pitch_roll_from_accelerometer(
                      sb_in.vec[1], sb_in.vec[2], sb_in.vec[3])
    /\ UNCHANGED <<sb_in, nonSbVars>>

\* ------------------------------------------------------------------------
\* The fusion engine
\* ------------------------------------------------------------------------

\* The state after Imu.__init__ at the reference instant; no sample given.
FusionIdle ==
    /\ engine = "Imu"
    /\ imu = ImuObject(0)
    /\ board = BoardObject
    /\ prev_time_ms = None
    /\ updates = 0
    /\ fusion = NoFusion
    /\ gyro_history = << >>
    /\ blend_weight = ImuAccWeight
    /\ source = FusionReadings
    /\ raised = NoneRaised

\* An Imu constructed at some instant, or a Board with main about to enter
\* its loop, under some configured weight.
FusionStart ==
    /\ engine \in {"Imu", "Board"}
    /\ imu \in {ImuObject(t) : t \in StartTimesMs}
    /\ board = BoardObject
    /\ prev_time_ms = None
    /\ updates = 0
    /\ fusion = NoFusion
    /\ gyro_history = << >>
    /\ blend_weight \in BlendWeights
    /\ source \in {FusionReadings, EdgeReadings}
    /\ raised = NoneRaised

\* A call of Imu.read_yaw_pitch_roll that returns, for the sensor output
\* raw, dt ms after the call before: read_next, the clock, the blend.
ImuUpdate(raw, dt) ==
    /\ engine = "Imu"
    /\ updates < MaxUpdates
    /\ \E reading \in {read_next(raw, bias)} :
          /\ ~DegenerateVector(Plain(reading[1]), Plain(reading[2]),
                               Plain(reading[3]))
          /\ \E call \in {read_yaw_pitch_roll(imu, reading,
                                              imu._prev_time_ms + dt)} :
              /\ imu' = call.self
              /\ fusion' = [old |-> <<imu._yaw_rad, imu._pitch_rad,
                                      imu._roll_rad>>,
                            acc |-> call.acc,
                            deltas |-> call.deltas,
                            new |-> <<call.self._yaw_rad,
                                      call.self._pitch_rad,
                                      call.self._roll_rad>>,
                            output |-> call.output]
              /\ gyro_history' =
                     Append(gyro_history,
                            [gyro |-> raw.gyroscope_data,
                             delta_time_ms |-> dt])
    /\ updates' = updates + 1
    /\ UNCHANGED <<engine, board, prev_time_ms, blend_weight, source, raised>>

\* Imu.read_yaw_pitch_roll, called by any caller.
ImuReadYawPitchRoll ==
    /\ \E raw \in source, dt \in FusionDeltaTimes : ImuUpdate(raw, dt)
    /\ UNCHANGED nonFusionVars

\* One pass of the loop of MPU6050Server.run: the update, json.dumps of the
\* four values it returned, and send, which puts the bytes of that text in
\* one datagram.  Kept with each datagram: the sensor output behind it and
\* the angles the update left.
MPU6050ServerRun ==
    /\ \E raw \in source, dt \in FusionDeltaTimes :
          /\ ImuUpdate(raw, dt)
          /\ \E data \in {json_dumps(fusion'.output)} :
                sent' = Append(sent, [data |-> data, sample |-> raw,
                                      orientation |-> fusion'.new])
    /\ UNCHANGED <<nonEngineVars, threadVars>>

\* Imu.read_yaw_pitch_roll for a sample whose corrected accelerometer
\* vector is degenerate: the tilt helper ends in DegenerateVector at lines
\* 40-41, after the clock attribute was assigned at line 38, and the
\* exception leaves the method.
ImuReadYawPitchRollRaises ==
    /\ engine = "Imu"
    /\ updates < MaxUpdates
    /\ \E raw \in source, dt \in FusionDeltaTimes :
          \E reading \in {read_next(raw, bias)} :
          \E curr_time_ms \in {imu._prev_time_ms + dt} :
              /\ DegenerateVector(Plain(reading[1]), Plain(reading[2]),
                                  Plain(reading[3]))
              /\ imu' = [imu EXCEPT !._prev_time_ms = curr_time_ms]
              /\ raised' = [error |-> "DegenerateVector", before |-> imu,
                            after |-> imu']
    /\ updates' = updates + 1
    /\ UNCHANGED <<engine, board, prev_time_ms, fusion, gyro_history,
                   blend_weight, source>>
    /\ UNCHANGED nonFusionVars

\* Imu.read_yaw_pitch_roll when read_next raises: a register read of the bus
\* fails at line 35, before any attribute is read or assigned.
ImuReadNextRaises ==
    /\ engine = "Imu"
    /\ updates < MaxUpdates
    /\ raised' = [error |-> SourceError, before |-> imu, after |-> imu]
    /\ updates' = updates + 1
    /\ UNCHANGED <<engine, imu, board, prev_time_ms, fusion, gyro_history,
                   blend_weight, source>>
    /\ UNCHANGED nonFusionVars

\* The pass of the loop of main that receives the first datagram.
MainFirstDatagram ==
    /\ engine = "Board"
    /\ updates < MaxUpdates
    /\ prev_time_ms = None
    /\ \E raw \in source, t \in StartTimesMs :
          prev_time_ms' = Some(t)
    /\ updates' = updates + 1
    /\ UNCHANGED <<engine, imu, board, fusion, gyro_history, blend_weight,
                   source, raised>>
    /\ UNCHANGED nonFusionVars

\* A later pass of the loop of main: the adapters, the two estimates,
\* Board.rotate.
MainDatagram ==
    /\ engine = "Board"
    /\ updates < MaxUpdates
    /\ prev_time_ms # None
    /\ \E raw \in source, dt \in FusionDeltaTimes :
       \E timestamp_ms \in {prev_time_ms[1] + dt} :
       \E acc \in {accelerometer_data_to_conventional_system(
                       raw.accelerometer_data[1], raw.accelerometer_data[2],
                       raw.accelerometer_data[3])} :
       \E gyro \in {gyroscope_data_to_conventional_system(
                        raw.gyroscope_data[1], raw.gyroscope_data[2],
                        raw.gyroscope_data[3])} :
       \E acc_x \in {Plain(acc[1])}, acc_y \in {Plain(acc[2])},
          acc_z \in {Plain(acc[3])} :
       \E acc_angles \in {accelerometer_data_to_taitbryan_rad(acc_x, acc_y,
                                                              acc_z)} :
       \E acc_yaw \in {acc_angles[1]}, acc_pitch \in {acc_angles[2]},
          acc_roll \in {acc_angles[3]} :
       \E delta_time_ms \in {timestamp_ms - prev_time_ms[1]} :
       \E deltas \in {gyroscope_data_to_taitbryan(gyro[1], gyro[2], gyro[3],
                                                  delta_time_ms)} :
       \E rotated \in {rotate(board, acc_yaw, acc_pitch, acc_roll,
                              deltas[1], deltas[2], deltas[3])} :
          /\ prev_time_ms' = Some(timestamp_ms)
          /\ board' = rotated
          /\ fusion' = [old |-> <<board._yaw, board._pitch, board._roll>>,
                        acc |-> <<acc_yaw, acc_pitch, acc_roll>>,
                        deltas |-> deltas,
                        new |-> <<rotated._yaw, rotated._pitch,
                                  rotated._roll>>,
                        output |-> << >>]
          /\ gyro_history' =
                 Append(gyro_history,
                        [gyro |-> raw.gyroscope_data,
                         delta_time_ms |-> delta_time_ms])
    /\ updates' = updates + 1
    /\ UNCHANGED <<engine, imu, blend_weight, source, raised>>
    /\ UNCHANGED nonFusionVars

\* ------------------------------------------------------------------------
\* The register reads
\* ------------------------------------------------------------------------

ServerIdle == sent = << >>

ThreadsIdle ==
    /\ thread_pc = << >>
    /\ frame = << >>
    /\ synchronized = TRUE
    /\ now_ms = 0

RegisterIdle ==
    /\ reg_fn = "none"
    /\ reg_in = <<0, 0>>
    /\ reg_out = 0

\* A pair of registers holding any high byte and one of the low bytes.
RegisterCalls ==
    /\ reg_fn = "none"
    /\ reg_in \in Bytes \X LowBytes
    /\ reg_out = 0

SensorReadDoubleRegisterData ==
    /\ reg_fn = "none"
    /\ reg_fn' = "sensor"
    /\ reg_out' = _read_double_register_data(reg_in[1], reg_in[2])
    /\ UNCHANGED <<reg_in, nonRegVars>>

PimuReadDoubleRegisterData ==
    /\ reg_fn = "none"
    /\ reg_fn' = "pimu"
    /\ reg_out' = pimu_read_double_register_data(reg_in[1], reg_in[2])
    /\ UNCHANGED <<reg_in, nonRegVars>>

\* ------------------------------------------------------------------------
\* Two threads calling Imu.read_yaw_pitch_roll
\* ------------------------------------------------------------------------

\* Two callers about to call the method of one Imu constructed at 0 ms,
\* with or without a lock around the call.
ThreadsStart ==
    /\ thread_pc = [t \in Threads |-> "start"]
    /\ frame = [t \in Threads |-> NoFrame]
    /\ synchronized \in BOOLEAN
    /\ now_ms = 0

\* What a step of a thread leaves alone besides the Imu and the threads.
nonThreadVars ==
    <<engine, board, prev_time_ms, updates, fusion, gyro_history,
      blend_weight, source, raised, nonEngineVars, serverVars>>

\* Lines 35-36: read_next and the clock.  A caller that synchronizes
\* enters only while no other call is under way.
ThreadReadNext(t) ==
    /\ thread_pc[t] = "start"
    /\ synchronized =>
          \A u \in Threads \ {t} : thread_pc[u] \in {"start", "returned"}
    /\ \E raw \in ThreadReadings, step \in ClockSteps :
          /\ now_ms' = now_ms + step
          /\ frame' = [frame EXCEPT ![t].reading = read_next(raw, bias),
                                    ![t].curr_time_ms = now_ms']
    /\ thread_pc' = [thread_pc EXCEPT ![t] = "37"]
    /\ UNCHANGED <<imu, synchronized, nonThreadVars>>

\* Line 37: the interval since the clock attribute.
ThreadReadPrevTime(t) ==
    /\ thread_pc[t] = "37"
    /\ frame' = [frame EXCEPT ![t].delta_time_ms =
                                 frame[t].curr_time_ms - imu._prev_time_ms]
    /\ thread_pc' = [thread_pc EXCEPT ![t] = "38"]
    /\ UNCHANGED <<imu, synchronized, now_ms, nonThreadVars>>

\* Line 38, the assignment of the clock attribute, and lines 40-45, the
\* two estimates, which touch the local variables only.
ThreadWritePrevTime(t) ==
    /\ thread_pc[t] = "38"
    /\ imu' = [imu EXCEPT !._prev_time_ms = frame[t].curr_time_ms]
    /\ \E fr \in {frame[t]} :
       \E acc \in {pitch_and_roll_from_accelerometer_data(
                       Plain(fr.reading[1]), Plain(fr.reading[2]),
                       Plain(fr.reading[3]))} :
       \E deltas \in {gyroscope_data_to_taitbryan_deltas(
                          fr.reading[4], fr.reading[5], fr.reading[6],
                          fr.delta_time_ms)} :
          frame' = [frame EXCEPT ![t].acc = <<GridAngle(acc[1]),
                                              GridAngle(acc[2])>>,
                                 ![t].deltas = deltas]
    /\ thread_pc' = [thread_pc EXCEPT ![t] = "47"]
    /\ UNCHANGED <<synchronized, now_ms, nonThreadVars>>

\* The first half of line 47, 48 or 50: the attribute is read.
ThreadLoadAttribute(t) ==
    /\ thread_pc[t] \in {"47", "48", "50"}
    /\ frame' = [frame EXCEPT ![t].loaded = imu[AttributeAt(thread_pc[t])]]
    /\ thread_pc' = [thread_pc EXCEPT ![t] = Storing(thread_pc[t])]
    /\ UNCHANGED <<imu, synchronized, now_ms, nonThreadVars>>

\* The second half: the attribute is assigned.
ThreadStoreAttribute(t) ==
    /\ \E line \in {"47", "48", "50"} :
          /\ thread_pc[t] = Storing(line)
          /\ imu' = [imu EXCEPT ![AttributeAt(line)] =
                                   assigned(line, frame[t])]
          /\ thread_pc' = [thread_pc EXCEPT ![t] = LineAfter(line)]
    /\ UNCHANGED <<frame, synchronized, now_ms, nonThreadVars>>

\* Lines 53-54: the tuple of the three attributes and the temperature is
\* returned.
ThreadReturn(t) ==
    /\ thread_pc[t] = "53"
    /\ frame' = [frame EXCEPT ![t].output =
                     <<imu._yaw_rad, imu._pitch_rad, imu._roll_rad,
                       frame[t].reading[7]>>]
    /\ thread_pc' = [thread_pc EXCEPT ![t] = "returned"]
    /\ UNCHANGED <<imu, synchronized, now_ms, nonThreadVars>>

\* ------------------------------------------------------------------------
\* Specifications
\* ------------------------------------------------------------------------

GeometryInit ==
    /\ GeometryCalls /\ AdapterIdle /\ CalibrationIdle /\ SensorboardIdle
    /\ FusionIdle /\ RegisterIdle /\ ServerIdle /\ ThreadsIdle

GeometryNext == Build \/ Extract \/ Rebuild

GeometrySpec == GeometryInit /\ [][GeometryNext]_vars

AdapterInit ==
    /\ GeometryIdle /\ AdapterCalls /\ CalibrationIdle /\ SensorboardIdle
    /\ FusionIdle /\ RegisterIdle /\ ServerIdle /\ ThreadsIdle

AdapterNext ==
    \/ CallAccelerometerToBoard
    \/ CallGyroscopeToBoard
    \/ CallAccelerometerToConventional
    \/ CallGyroscopeToConventional

AdapterSpec == AdapterInit /\ [][AdapterNext]_vars

CalibrationInit ==
    /\ GeometryIdle /\ AdapterIdle /\ CalibrationCalls /\ SensorboardIdle
    /\ FusionIdle /\ RegisterIdle /\ ServerIdle /\ ThreadsIdle

CalibrationNext ==
    \/ ImuCalibrateBegin
    \/ ImuCalibrateSample
    \/ ImuCalibrateSampleRaises
    \/ ImuCalibrateEnd
    \/ ImuReadNext
    \/ CalibratePrompt
    \/ CalibrateSample
    \/ CalibrateSampleRaises
    \/ CalibrateReturn
    \/ MainReadCorrected

CalibrationSpec == CalibrationInit /\ [][CalibrationNext]_vars

SensorboardInit ==
    /\ GeometryIdle /\ AdapterIdle /\ CalibrationIdle /\ SensorboardCalls
    /\ FusionIdle /\ RegisterIdle /\ ServerIdle /\ ThreadsIdle

SensorboardNext ==
    \/ CallGyroscopeToTaitbryan
    \/ CallAccelerometerToTaitbryan
    \/ CallTempPitchRoll

SensorboardSpec == SensorboardInit /\ [][SensorboardNext]_vars

FusionInit ==
    /\ GeometryIdle /\ AdapterIdle /\ CalibrationIdle /\ SensorboardIdle
    /\ FusionStart /\ RegisterIdle /\ ServerIdle /\ ThreadsIdle
    /\ source = FusionReadings

FusionNext == ImuReadYawPitchRoll \/ MainFirstDatagram \/ MainDatagram

FusionSpec == FusionInit /\ [][FusionNext]_vars

\* The engines fed with the outputs at the edges of the input, the calls
\* that end in an exception included.
EdgeInit ==
    /\ GeometryIdle /\ AdapterIdle /\ CalibrationIdle /\ SensorboardIdle
    /\ FusionStart /\ RegisterIdle /\ ServerIdle /\ ThreadsIdle
    /\ source = EdgeReadings

EdgeNext ==
    \/ ImuReadYawPitchRoll
    \/ ImuReadYawPitchRollRaises
    \/ ImuReadNextRaises
    \/ MainFirstDatagram
    \/ MainDatagram

EdgeSpec == EdgeInit /\ [][EdgeNext]_vars

\* The server with a freshly constructed MPU6050.
ServerInit ==
    /\ GeometryIdle /\ AdapterIdle /\ CalibrationIdle /\ SensorboardIdle
    /\ FusionStart /\ RegisterIdle /\ ServerIdle /\ ThreadsIdle
    /\ engine = "Imu"
    /\ source = FusionReadings

ServerNext == MPU6050ServerRun

ServerSpec == ServerInit /\ [][ServerNext]_vars

ThreadInit ==
    /\ GeometryIdle /\ AdapterIdle /\ CalibrationIdle /\ SensorboardIdle
    /\ FusionIdle /\ RegisterIdle /\ ServerIdle /\ ThreadsStart

ThreadNext ==
    \E t \in Threads :
        \/ ThreadReadNext(t)
        \/ ThreadReadPrevTime(t)
        \/ ThreadWritePrevTime(t)
        \/ ThreadLoadAttribute(t)
        \/ ThreadStoreAttribute(t)
        \/ ThreadReturn(t)

ThreadSpec == ThreadInit /\ [][ThreadNext]_vars

RegisterInit ==
    /\ GeometryIdle /\ AdapterIdle /\ CalibrationIdle /\ SensorboardIdle
    /\ FusionIdle /\ RegisterCalls /\ ServerIdle /\ ThreadsIdle

RegisterNext == SensorReadDoubleRegisterData \/ PimuReadDoubleRegisterData

RegisterSpec == RegisterInit /\ [][RegisterNext]_vars

\* ------------------------------------------------------------------------
\* Properties of the rotation library
\* ------------------------------------------------------------------------

\* A matrix has been built from (yaw_rad, pitch_rad, roll_rad).
Built == mode \in {"build", "roundtrip"} /\ pc # "build"

\* The extractor has returned or raised.
Extracted == angles # NoResult

\* |v - target| < 1e-6, written out.
WithinTolerance(v, target) ==
    Less(Abs(Sub(v, target)), Rat(1, 1000000))

\* C1: for every angle triple whose pitch is not at +-pi/2, rebuilding the
\* matrix from the angles extracted from build_rotation_matrix(yaw, pitch,
\* roll) gives the same matrix, entry by entry.
C1_RoundTripReproducesMatrix ==
    (mode = "roundtrip" /\ pc = "done" /\ pitch_rad \notin {-2, 2})
        => rebuilt = rotation_matrix

C3_BuildMatchesUnitTests ==
    Built => rotation_matrix =
                ExpectedRotationMatrix(yaw_rad, pitch_rad, roll_rad)

\* C4: build_rotation_matrix(0, 0, 0) is the 3x3 identity matrix.
C4_BuildZeroIsIdentity ==
    (Built /\ yaw_rad = 0 /\ pitch_rad = 0 /\ roll_rad = 0)
        => rotation_matrix = Eye(3)

C4_Witness ==
    /\ mode = "build"
    /\ pc = "done"
    /\ yaw_rad = 0
    /\ pitch_rad = 0
    /\ roll_rad = 0
    /\ rotation_matrix = Eye(3)

C7_ExactLockExtraction ==
    (mode = "roundtrip" /\ Extracted /\ pitch_rad = 2) =>
        angles = Returned(<<0, 2, Arctan2(At(rotation_matrix, 0, 1),
                                          At(rotation_matrix, 0, 2))>>)

\* C8: the extractor raises the invalid-shape ValueError for every input
\* whose shape is not (3, 3), returns no angles for it and reads none of its
\* entries; it raises for no 3x3 input.
C8_InvalidShapeRaises ==
    Extracted =>
        /\ (rotation_matrix.shape # <<3, 3>>) <=> (angles.raised # "none")
        /\ (rotation_matrix.shape # <<3, 3>>) =>
              /\ angles = Raised(InvalidShape)
              /\ angles.value = << >>
              /\ entries_read = {}

\* np.eye(4) was refused.
C8_Witness ==
    /\ mode = "extract"
    /\ pc = "done"
    /\ rotation_matrix = Eye(4)
    /\ angles = Raised(InvalidShape)
    /\ entries_read = {}

\* ------------------------------------------------------------------------
\* Properties of the coordinate adapters and of the calibration
\* ------------------------------------------------------------------------

\* C9: for every triple (x, y, z) the accelerometer adapter and the
\* gyroscope adapter both return exactly (y, x, -z), with no scaling or unit
\* conversion.
C9_AdaptersReturnYXNegZ ==
    adapter_fn # "none" =>
        adapter_out = <<adapter_in[2], adapter_in[1], SNeg(adapter_in[3])>>

\* A calibration has run to its end (for calibration.calibrate: the operator
\* asked for it).
CalibrationFinished ==
    \/ calib_routine = "Imu" /\ calib_pc = "idle" /\ calibrations > 0
    \/ calib_routine = "calibration" /\ calib_pc = "returned" /\ do_calibration

\* The six values a finished calibration stored or returned.
CalibrationOutput ==
    IF calib_routine = "Imu"
    THEN <<bias.acc_x, bias.acc_y, bias.acc_z,
           bias.gyro_x, bias.gyro_y, bias.gyro_z>>
    ELSE calibration

C11_FailedCalibrationKeepsBias ==
    /\ (calib_pc = "raised") <=> (calib_raised # "none")
    /\ calib_pc = "raised" =>
          /\ calib_raised = SourceError
          /\ source_reads = Len(delivered) + 1
          /\ Len(delivered) < num_calibration_samples
          /\ bias = bias_at_call
          /\ calibration = << >>
    /\ CalibrationFinished => source_reads = num_calibration_samples

\* The second calibration of an Imu fails at its third read: the bias of
\* the first calibration stays.
C11_Witness ==
    /\ calib_routine = "Imu"
    /\ calib_pc = "raised"
    /\ calib_raised = SourceError
    /\ calibrations = 1
    /\ Len(delivered) = 2
    /\ source_reads = 3
    /\ bias # ZeroBias
    /\ bias = bias_at_call

\* C12: the output of a calibration is the mean of the samples as the
\* sensor delivers them, in its native frame: not axis-converted, not
\* scaled, not bias-corrected.
C12_CalibrationAveragesNativeSamples ==
    CalibrationFinished =>
        CalibrationOutput =
            Mean([i \in 1..Len(raw_delivered) |-> NativeSix(raw_delivered[i])])

\* A sensor at rest on a level surface: gravity on the vertical axis only,
\* no rotation.
LevelStationary(raw) ==
    /\ raw.accelerometer_data[1] = Fix(0)
    /\ raw.accelerometer_data[2] = Fix(0)
    /\ raw.accelerometer_data[3] \in {Fix(1), Fix(-1)}
    /\ raw.gyroscope_data = <<Fix(0), Fix(0), Fix(0)>>

\* C13: after a calibration on a constant, stationary, level source, the
\* bias-corrected live reading of that source has acc_x = 0, acc_y = 0 and
\* 1 g on the vertical axis.
C13_CorrectedLevelReadingKeepsGravity ==
    (/\ CalibrationFinished
     /\ live # << >>
     /\ LevelStationary(live_raw)
     /\ \A i \in 1..Len(raw_delivered) : raw_delivered[i] = live_raw) =>
        /\ live[1] = Fix(0)
        /\ live[2] = Fix(0)
        /\ live[3] \in {Fix(1), Fix(-1)}

\* The yaw, pitch and roll the engine holds.
EngineAngles ==
    IF engine = "Imu" THEN <<imu._yaw_rad, imu._pitch_rad, imu._roll_rad>>
    ELSE <<board._yaw, board._pitch, board._roll>>

\* C14: after the first sample given to the engine the yaw, pitch and roll
\* still have their initial values (0, 0, 0), whatever the accelerometer
\* and gyroscope values of the sample are.
C14_FirstSampleLeavesOrientation ==
    updates = 1 => EngineAngles = <<AZero, AZero, AZero>>

\* The weight the engine gives the accelerometer estimate.
EngineWeight == IF engine = "Imu" THEN ImuAccWeight ELSE acc_weight

\* w * acc + (1 - w) * (old + delta)
Blend(w, acc, old, delta) ==
    AAdd(Weighted(w, acc), Weighted(OneMinus(w), AAdd(old, delta)))

C16_BlendUsesConfiguredWeight ==
    fusion # NoFusion =>
        \A i \in {2, 3} :
            fusion.new[i] = Blend(blend_weight, fusion.acc[i],
                                  fusion.old[i], fusion.deltas[i])

\* The sum over a history of the yaw deltas of the gyroscope: the Z rate
\* in the board frame, in rad/s, times the interval in seconds.
RECURSIVE HistoryYaw(_)
HistoryYaw(h) ==
    IF h = << >> THEN AZero
    ELSE AAdd(HistoryYaw(SubSeq(h, 1, Len(h) - 1)),
              AScale(AngleOf(deg2rad(SNeg(h[Len(h)].gyro[3]))),
                     h[Len(h)].delta_time_ms, 1000))

\* C17: every blend sets yaw to the old yaw plus the yaw delta of the
\* gyroscope, so the yaw is the sum of these deltas and is determined by
\* the gyroscope values and the intervals alone, whatever the
\* accelerometer values and the weight are.
C17_YawIsGyroscopeOnly ==
    /\ fusion # NoFusion =>
          fusion.new[1] = AAdd(fusion.old[1], fusion.deltas[1])
    /\ EngineAngles[1] = HistoryYaw(gyro_history)

\* Two blends or more with a yaw that moved, the last one with a yaw delta
\* and with an accelerometer roll.
C17_Witness ==
    /\ Len(gyro_history) >= 2
    /\ EngineAngles[1] # AZero
    /\ fusion.deltas[1] # AZero
    /\ fusion.acc[3] # AZero

\* The delta the specification gives for a rate in deg/s over dt ms:
\* the rate in rad/s times dt/1000.
RadiansDelta(rate, dt) == AScale(AngleOf(deg2rad(rate)), dt, 1000)

\* C18: for every board-frame rate triple in deg/s and every interval, the
\* gyroscope delta function returns (yaw, pitch, roll) deltas that are the
\* Z, Y and X rates converted from deg/s to rad/s and multiplied by
\* delta_time_ms / 1000.
C18_GyroDeltasAreRadians ==
    sb_fn = "gyroscope_data_to_taitbryan" =>
        sb_out = <<RadiansDelta(sb_in.vec[3], sb_in.delta_time_ms),
                   RadiansDelta(sb_in.vec[2], sb_in.delta_time_ms),
                   RadiansDelta(sb_in.vec[1], sb_in.delta_time_ms)>>

\* The grid angle k is arctan2(y, x).
IsArctan2(k, y, x) ==
    /\ k \in -3..4
    /\ IF y = Zero /\ x = Zero THEN k = 0
       ELSE /\ Sub(Mul(y, Cos(k)), Mul(x, Sin(k))) = Zero
            /\ Sign(Add(Mul(y, Sin(k)), Mul(x, Cos(k)))) > 0

\* An accelerometer vector divided by its norm.
Normalised(v) == VecDiv(v, VecNorm(v))

TiltFunctions ==
    {"accelerometer_data_to_taitbryan", "TEMP_pitch_roll_from_accelerometer"}

\* C19: for every accelerometer vector of non-zero norm, with (gx, gy, gz)
\* its normalisation, both tilt functions return the pitch
\* atan2(-gx, sqrt(gy^2 + gz^2)) and the roll atan2(gy, gz).
C19_TiltIsClosedForm ==
    sb_fn \in TiltFunctions =>
        LET g == Normalised(sb_in.vec)
        IN  /\ IsArctan2(sb_out[2], Neg(g[1]),
                         Sqrt(Add(Mul(g[2], g[2]), Mul(g[3], g[3]))))
            /\ IsArctan2(sb_out[3], g[2], g[3])

\* C20: for every accelerometer vector of non-zero norm the yaw returned
\* by the tilt functions is 0.
C20_TiltYawIsZero == sb_fn \in TiltFunctions => sb_out[1] = 0

\* The transpose of a matrix.
Transpose(m) ==
    Array2([i \in 1..m.shape[2] |-> [j \in 1..m.shape[1] |-> m.data[j][i]]])

\* The determinant of a 3x3 matrix.
Det3(m) ==
    LET e(i, j) == At(m, i, j)
        minor(a, b, c, d) == Sub(Mul(a, d), Mul(b, c))
    IN  Add(Sub(Mul(e(0, 0), minor(e(1, 1), e(1, 2), e(2, 1), e(2, 2))),
                Mul(e(0, 1), minor(e(1, 0), e(1, 2), e(2, 0), e(2, 2)))),
            Mul(e(0, 2), minor(e(1, 0), e(1, 1), e(2, 0), e(2, 1))))

\* C26: for every angle triple build_rotation_matrix returns a 3x3
\* orthonormal matrix: R * R^T is the identity and det(R) = +1.
C26_BuiltMatrixIsOrthonormal ==
    Built =>
        /\ rotation_matrix.shape = <<3, 3>>
        /\ MatMul(rotation_matrix, Transpose(rotation_matrix)) = Eye(3)
        /\ Det3(rotation_matrix) = One

\* A matrix built from three angles that are not multiples of pi/2, with
\* irrational entries.
C26_Witness ==
    /\ mode = "build"
    /\ pc = "done"
    /\ yaw_rad = 1
    /\ pitch_rad = 3
    /\ roll_rad = -1
    /\ \E i, j \in 0..2 : At(rotation_matrix, i, j).b # 0

\* ------------------------------------------------------------------------
\* Properties of the register reads
\* ------------------------------------------------------------------------

\* The signed 16-bit two's-complement reading of a 16-bit pattern.
TwosComplement16(raw) == IF raw >= 32768 THEN raw - 65536 ELSE raw

\* C28: what _read_double_register_data returns is the signed 16-bit
\* two's-complement reading of (high << 8) | low, and so lies in
\* -32768..32767; the pattern 0x8000 gives -32768.
C28_RegisterPairIsTwosComplement ==
    reg_fn # "none" =>
        /\ reg_out = TwosComplement16(256 * reg_in[1] + reg_in[2])
        /\ reg_out \in -32768..32767

\* ------------------------------------------------------------------------
\* Properties of a repeated calibration
\* ------------------------------------------------------------------------

\* The pass of Imu.calibrate that has just ended was given the sensor
\* output r for every sample.
ConstantPass(r) ==
    /\ Len(raw_delivered) = NUMBER_OF_CALIBRATION_SAMPLES
    /\ \A i \in 1..Len(raw_delivered) : raw_delivered[i] = r

\* The bias attributes a first calibration over the constant output r
\* leaves: the mean of equal samples is that sample.
FirstCalibrationBias(r) ==
    LET sample == read_next(r, ZeroBias)
    IN  [acc_x |-> sample[1], acc_y |-> sample[2], acc_z |-> sample[3],
         gyro_x |-> sample[4], gyro_y |-> sample[5], gyro_z |-> sample[6]]

\* C29: a second calibration over the constant source the first one was
\* made over leaves the six bias attributes at the values of the first.
C29_SecondCalibrationKeepsBias ==
    \A r \in Source :
        (/\ calib_routine = "Imu"
         /\ calib_pc = "idle"
         /\ calibrations = 2
         /\ ConstantPass(r)
         /\ bias_at_call = FirstCalibrationBias(r)) => bias = bias_at_call

\* ------------------------------------------------------------------------
\* Properties of the fusion at the edges of its input
\* ------------------------------------------------------------------------

\* The interval of the last blend, in ms.
LastInterval == gyro_history[Len(gyro_history)].delta_time_ms

\* The gyroscope output of the last blend.
LastGyro == gyro_history[Len(gyro_history)].gyro

\* C22: a sample whose timestamp is smaller than the last one is either
\* rejected or blended with an interval clamped to 0: no negative interval
\* is multiplied into the rates, so the gyroscope deltas of such a blend
\* are zero and the yaw stays where it was.
C22_EarlierTimestampMovesNothing ==
    (fusion # NoFusion /\ LastInterval < 0) =>
        /\ fusion.deltas = <<AZero, AZero, AZero>>
        /\ fusion.new[1] = fusion.old[1]

\* C23: an update whose timestamp equals the last one leaves the yaw
\* unchanged and sets pitch and roll to w * tilt_acc + (1 - w) * previous,
\* w being the weight of the engine: the interval is a factor of the
\* deltas, never a divisor.
C23_ZeroIntervalBlend ==
    (fusion # NoFusion /\ LastInterval = 0) =>
        /\ fusion.new[1] = fusion.old[1]
        /\ \A i \in {2, 3} :
              fusion.new[i] = AAdd(Weighted(EngineWeight, fusion.acc[i]),
                                   Weighted(OneMinus(EngineWeight),
                                            fusion.old[i]))
        /\ EngineAngles = fusion.new

\* An update of the Imu with the timestamp of the update before, while the
\* gyroscope measures a rotation about its three axes, the yaw and the roll
\* have moved and the accelerometer gives another roll.
C23_Witness ==
    /\ engine = "Imu"
    /\ fusion # NoFusion
    /\ LastInterval = 0
    /\ \A i \in 1..3 : LastGyro[i] # Fix(0)
    /\ fusion.old[1] # AZero
    /\ fusion.old[3] # AZero
    /\ fusion.acc[3] # AZero
    /\ fusion.acc[3] # fusion.old[3]

\* A float that is nan.
IsNaN(x) == x.d = 0

\* C21: a sample whose accelerometer vector has zero norm ends in the error
\* DegenerateVector and nothing is divided by the norm: no tilt estimate
\* that enters a blend is nan, and no angle stored in the engine is nan.
C21_NoNaNFromZeroNorm ==
    /\ \A i \in 1..3 : ~IsNaN(EngineAngles[i])
    /\ fusion # NoFusion => \A i \in 1..3 : ~IsNaN(fusion.acc[i])

\* -pi < x <= pi, for an angle that is a rational multiple of pi.
InPiRange(x) ==
    /\ ~IsNaN(x)
    /\ x.n = 0
    /\ -180 * x.d < x.pi180
    /\ x.pi180 <= 180 * x.d

\* Every sample blended so far came later than the one before it, none had
\* a zero-norm accelerometer vector, and no call ended in an exception.
OrdinarySamplesOnly ==
    /\ \A i \in 1..Len(gyro_history) : gyro_history[i].delta_time_ms > 0
    /\ \A i \in 1..3 : ~IsNaN(EngineAngles[i])
    /\ raised = NoneRaised

\* C24: after any sequence of updates with non-zero-norm accelerometer
\* vectors, any rates and increasing timestamps, the stored pitch and the
\* stored roll lie in (-pi, pi].
C24_PitchAndRollStayInRange ==
    OrdinarySamplesOnly =>
        /\ InPiRange(EngineAngles[2])
        /\ InPiRange(EngineAngles[3])

\* C30: a call of the update that ends in an exception leaves the yaw, the
\* pitch, the roll and the timestamp of the last update as they were before
\* the call.
C30_FailedUpdateChangesNothing ==
    raised.error # "none" => raised.after = raised.before

\* ------------------------------------------------------------------------
\* Properties of the server
\* ------------------------------------------------------------------------

\* C25: every datagram of the server is the text of the flat list [yaw,
\* pitch, roll, temperature] of one update, one datagram per update: the
\* three angles are the ones the engine holds right after that update and
\* the temperature is the one the sensor delivered in the sample of that
\* update, unmodified.
C25_DatagramIsOneUpdate ==
    /\ Len(sent) = updates
    /\ \A i \in 1..Len(sent) :
          sent[i].data = <<"[", sent[i].orientation[1], ", ",
                           sent[i].orientation[2], ", ",
                           sent[i].orientation[3], ", ",
                           sent[i].sample.temperature_deg, "]">>
    /\ sent # << >> => sent[Len(sent)].orientation = EngineAngles

\* Two datagrams of different samples, the second sent with the three
\* angles away from 0.
C25_Witness ==
    /\ Len(sent) >= 2
    /\ sent[1].sample # sent[2].sample
    /\ \A i \in 1..3 : EngineAngles[i] # AZero

\* ------------------------------------------------------------------------
\* Properties of concurrent updates
\* ------------------------------------------------------------------------

AllReturned == \A t \in Threads : thread_pc[t] = "returned"

\* The attributes of the Imu after the call of thread a and then the call
\* of thread b, each with the sample and the clock value it had.
Sequential(a, b) ==
    The({read_yaw_pitch_roll(first.self, frame[b].reading,
                             frame[b].curr_time_ms).self :
            first \in {read_yaw_pitch_roll(ImuObject(0), frame[a].reading,
                                           frame[a].curr_time_ms)}})

\* C27: when the two calls of the update are serialized by a lock, the
\* yaw, pitch, roll and timestamp they leave are those of one of the two
\* sequential orders; without the lock some interleaving of the statements
\* leaves values that neither order gives (the state of the witness).
C27_SerializedUpdatesAreSequential ==
    (synchronized /\ AllReturned) =>
        imu \in {Sequential(1, 2), Sequential(2, 1)}

\* Both unsynchronized calls have returned and the attributes of the Imu
\* are those of neither sequential order; the yaw in particular is the yaw
\* of neither.
C27_Witness ==
    /\ ~synchronized
    /\ AllReturned
    /\ imu \notin {Sequential(1, 2), Sequential(2, 1)}
    /\ imu._yaw_rad \notin {Sequential(1, 2)._yaw_rad,
                             Sequential(2, 1)._yaw_rad}

====
